---- MODULE Spec2Model ----
(***************************************************************************)
(* FocusTube backend: focus-mode session supervisor (routers/modes.py and  *)
(* services/focus_engine.py), policy engine (services/filter_engine.py)    *)
(* and classification cache (services/ai_classifier.py).                   *)
(*                                                                         *)
(* Time is counted in whole minutes; datetime.utcnow() is the variable     *)
(* now.  A focus_modes row is identified by <<owner, slot>>: the owner is  *)
(* the row's user_id and the slot stands for its uuid4 primary key.        *)
(***************************************************************************)
EXTENDS Integers, Sequences, FiniteSets, TLC

\* ------------------------------------------------------------------ bounds
MaxTime == 2          \* the clock runs from 0 to MaxTime
MaxDuration == 2      \* lock durations requested: 1..MaxDuration minutes
MaxTarget == 2        \* requests name mode slots 1..MaxTarget
MaxCustom == 1        \* create_mode is taken while fewer custom rows exist
MaxClock == 3         \* the classifier's clock runs from 0 to MaxClock

\* --------------------------------------------------------------- constants
Users == {"u1", "u2"}

\* the users whose requests are followed
Callers == {"u1"}

\* lock_until = None
None == -1

\* keys of PRESET_MODES in dictionary (insertion) order
PresetKeys ==
  <<"study", "deep_work", "music", "relax", "gaming", "news", "fitness",
    "travel", "tech">>

NumPresets == Len(PresetKeys)

\* configurations a create/update request carries
CfgInputs == {"custom"}

Slots == 1..(NumPresets + MaxCustom)

NoId == <<"nobody", 0>>

\* mode ids a request of user u can name: slots of u, with or without a row,
\* and a slot of every other user
TargetsOf(u) == ({u} \X (1..MaxTarget)) \cup ((Users \ {u}) \X {1})

LockDurations == 1..MaxDuration

VARIABLES
  modes,    \* table focus_modes: id -> row
  now,      \* datetime.utcnow(), in minutes
  last,     \* the last request and its response
  pre,      \* history: what the caller's modes were when the request came
  fin,      \* check_video: the video, its classification and the mode
  verdict,  \* check_video: the dictionary returned
  rpc,      \* concurrent activate: where each request is
  rtarget,  \* concurrent activate: the mode id each request names
  rsess,    \* concurrent activate: the rows each session has loaded
  rres,     \* concurrent activate: the response of each request
  cache,    \* table content_cache: video_id -> row
  clock,    \* datetime.utcnow() of the classifier, in units of 12 hours
  calls,    \* classify_video: the state of each call
  clast,    \* history: the classification last committed for a video
  hvideo,   \* _fallback_classification: the video
  hcls,     \* _fallback_classification: the Classification returned
  watch,    \* table watch_history: the rows in the order of their insertion
  wnow,     \* datetime.utcnow() of the time limit, in units of 12 hours
  tl,       \* check_time_limit: the last call and the dictionary returned
  ranking,  \* get_personalized_ranking: the videos and the preferences
  ranked,   \* get_personalized_ranking: the list returned
  freq,     \* get_feed: the active mode, the path taken, the videos offered
  fitems,   \* get_feed: the items returned
  rules     \* table filter_rules: the rows in the order of their insertion

modeVars == <<modes, now, last, pre>>
filterVars == <<fin, verdict>>
raceVars == <<rpc, rtarget, rsess, rres>>
cacheVars == <<cache, clock, calls, clast>>
heurVars == <<hvideo, hcls>>
limitVars == <<watch, wnow, tl>>
rankVars == <<ranking, ranked>>
feedVars == <<freq, fitems>>
restVars == <<limitVars, rankVars, feedVars, rules>>
vars == <<modes, now, last, pre, fin, verdict, rpc, rtarget, rsess, rres,
          cache, clock, calls, clast, hvideo, hcls, watch, wnow, tl,
          ranking, ranked, freq, fitems, rules>>

\* ------------------------------------------------------------------ rows
\* FocusMode(user_id, **config): is_active, is_locked default False,
\* lock_until is nullable and starts as None
NewMode(cfg, active) ==
  [is_active |-> active, is_locked |-> FALSE, lock_until |-> None, cfg |-> cfg]

\* select(FocusMode).where(FocusMode.user_id == user.id)
UserModes(u) == {id \in DOMAIN modes : id[1] = u}

\* select(FocusMode).where(user_id == user.id, is_locked == True)
LockedRows(u) == {id \in UserModes(u) : modes[id].is_locked}

\* select(FocusMode).where(user_id == user.id, is_active == True)
ActiveRows(u) == {id \in UserModes(u) : modes[id].is_active}

\* mutant of Owned: the owner of the row is not compared
Owned_anyUser(u, t) == t \in DOMAIN modes

\* select(FocusMode).where(FocusMode.id == mode_id, user_id == user.id)
Owned(u, t) == t \in UserModes(u)

\* mutants of LockRunning: the comparison turned round, and the deadline
\* itself counted as locked
LockRunning_inverted(row) ==
  row.is_locked /\ row.lock_until # None /\ row.lock_until < now

LockRunning_inclusive(row) ==
  row.is_locked /\ row.lock_until # None /\ row.lock_until >= now

\* the lock test of the handlers: is_locked and lock_until and
\* lock_until > datetime.utcnow()
LockRunning(row) ==
  row.is_locked /\ row.lock_until # None /\ row.lock_until > now

\* the response of a request; arg is the duration_minutes a lock request
\* carried (0 for the other requests)
Resp(op, u, t, res, blocker, retLocked, retUntil) ==
  [op |-> op, user |-> u, target |-> t, result |-> res, blocker |-> blocker,
   ret_locked |-> retLocked, ret_until |-> retUntil, arg |-> 0]

\* a response that returns the row r (FocusModeResponse)
RespMode(op, u, t, r) == Resp(op, u, t, "ok", NoId, r.is_locked, r.lock_until)

\* an error response
RespErr(op, u, t, res) == Resp(op, u, t, res, NoId, FALSE, None)

\* rows of PRESET_MODES for user u, the first one active when firstActive
PresetRows(u, firstActive) ==
  [id \in {u} \X (1..NumPresets) |->
     NewMode(PresetKeys[id[2]], firstActive /\ id[2] = 1)]

\* the table with the rows of f added or replaced
Upsert(tbl, f) ==
  [id \in DOMAIN tbl \cup DOMAIN f |-> IF id \in DOMAIN f THEN f[id] ELSE tbl[id]]

\* the table without the rows of ids
Without(tbl, ids) == [id \in DOMAIN tbl \ ids |-> tbl[id]]

\* mutants of Switched: the other modes keep their activity flag, and the
\* modes keep their lock fields
Switched_keepsOthers(tbl, u, t) ==
  [id \in DOMAIN tbl |->
     IF id = t
       THEN [tbl[id] EXCEPT !.is_active = TRUE, !.is_locked = FALSE,
                            !.lock_until = None]
       ELSE tbl[id]]

Switched_keepsLock(tbl, u, t) ==
  [id \in DOMAIN tbl |->
     IF id[1] = u THEN [tbl[id] EXCEPT !.is_active = (id = t)] ELSE tbl[id]]

\* the loop of activate: every mode of u inactive and unlocked, then the
\* target active
Switched(tbl, u, t) ==
  [id \in DOMAIN tbl |->
     IF id[1] = u
       THEN [tbl[id] EXCEPT !.is_active = (id = t), !.is_locked = FALSE,
                            !.lock_until = None]
       ELSE tbl[id]]

\* mutant of Locked: the deadline counted from the start of the clock
Locked_fromEpoch(tbl, t, d) ==
  [tbl EXCEPT ![t].is_locked = TRUE, ![t].lock_until = d]

\* lock_session: mode.is_locked = True,
\* mode.lock_until = datetime.utcnow() + timedelta(minutes=duration_minutes)
Locked(tbl, t, d) ==
  [tbl EXCEPT ![t].is_locked = TRUE, ![t].lock_until = now + d]

\* mutant of Unlocked: the deadline stays in the row
Unlocked_keepsUntil(tbl, t) == [tbl EXCEPT ![t].is_locked = FALSE]

\* mutant of Unlocked: the unlocked mode is deactivated as well
Unlocked_deactivates(tbl, t) ==
  [tbl EXCEPT ![t].is_locked = FALSE, ![t].lock_until = None,
              ![t].is_active = FALSE]

\* unlock_session: mode.is_locked = False, mode.lock_until = None
Unlocked(tbl, t) ==
  [tbl EXCEPT ![t].is_locked = FALSE, ![t].lock_until = None]

\* the caller's locked mode, its lock_until and the caller's active mode when
\* a request arrives (NoId, None when there is none)
PreOf(u) ==
  [locked |-> IF LockedRows(u) = {} THEN NoId
              ELSE CHOOSE i \in LockedRows(u) : TRUE,
   until |-> IF LockedRows(u) = {} THEN None
             ELSE modes[CHOOSE i \in LockedRows(u) : TRUE].lock_until,
   active |-> IF ActiveRows(u) = {} THEN NoId
              ELSE CHOOSE i \in ActiveRows(u) : TRUE]

NoPre == [locked |-> NoId, until |-> None, active |-> NoId]

\* rows of the users that are not followed: the table a user has after
\* reset_modes and lock of the active mode for one minute
StoredRows ==
  [id \in (Users \ Callers) \X (1..NumPresets) |->
     IF id[2] = 1
       THEN [is_active |-> TRUE, is_locked |-> TRUE, lock_until |-> 1,
             cfg |-> PresetKeys[1]]
       ELSE NewMode(PresetKeys[id[2]], FALSE)]

\* check_video has not been called
NoVerdict == [pending |-> TRUE]

FilterIdle ==
  /\ fin = [video |-> << >>, classification |-> << >>, mode |-> << >>]
  /\ verdict = NoVerdict

\* two activate requests of one user, each in a session of its own
Procs == {"p1", "p2"}

RaceUser == "u1"

\* no concurrent request is under way
RaceIdle ==
  /\ rpc = [p \in Procs |-> "idle"]
  /\ rtarget = [p \in Procs |-> NoId]
  /\ rsess = [p \in Procs |-> << >>]
  /\ rres = [p \in Procs |-> "none"]

\* ids of the videos classified
VideoIds == {"v1", "v2"}

NoRow == [absent |-> TRUE]

NoCls == [absent |-> TRUE]

\* a call of classify_video that has not started
NoCall ==
  [pc |-> "idle", video |-> "none", force_refresh |-> FALSE, use_ai |-> FALSE,
   lookup |-> "none", loaded |-> NoRow, ai |-> "none", cls |-> NoCls,
   existing |-> FALSE, stamp |-> 0, failed |-> "none", result |-> "none",
   out |-> NoCls]

\* classify_video has not been called
CacheIdle ==
  /\ cache = << >>
  /\ clock = 0
  /\ calls = [p \in Procs |-> NoCall]
  /\ clast = << >>

\* _fallback_classification has not been called
HeurIdle ==
  /\ hvideo = [title |-> "", tags |-> << >>, description |-> "",
               channel_title |-> "", duration_seconds |-> 0]
  /\ hcls = NoCls

\* check_time_limit has not been called
NoLimit == [absent |-> TRUE]

LimitIdle ==
  /\ watch = << >>
  /\ wnow = 0
  /\ tl = NoLimit

\* get_personalized_ranking has not been called
NoList == [absent |-> TRUE]

RankIdle ==
  /\ ranking = [videos |-> << >>, preferred_categories |-> << >>,
                avoided_categories |-> << >>]
  /\ ranked = NoList

\* get_feed has not been called
FeedIdle ==
  /\ freq = [absent |-> TRUE]
  /\ fitems = NoList
  /\ rules = << >>

\* no table is in use by a request
ModesIdle ==
  /\ modes = << >>
  /\ now = 0
  /\ last = RespErr("init", "nobody", NoId, "ok")
  /\ pre = NoPre

\* ------------------------------ routers/modes.py, concurrent requests
\* the table of RaceUser after reset_modes or list_modes, activate of slot a
\* (no activate when a = 0) and lock until l (no lock when l = None)
RaceTable(a, l) ==
  [id \in {RaceUser} \X (1..NumPresets) |->
     [is_active |-> (id[2] = a), is_locked |-> (id[2] = a /\ l # None),
      lock_until |-> IF id[2] = a THEN l ELSE None,
      cfg |-> PresetKeys[id[2]]]]

RaceInit ==
  /\ LimitIdle
  /\ RankIdle
  /\ FeedIdle
  /\ \E a \in 0..MaxTarget, l \in {None, 1} :
       /\ a = 0 => l = None
       /\ modes = RaceTable(a, l)
  /\ now \in 0..1
  /\ last = RespErr("init", "nobody", NoId, "ok")
  /\ pre = NoPre
  /\ FilterIdle
  /\ CacheIdle
  /\ HeurIdle
  /\ rpc = [p \in Procs |-> "start"]
  /\ rtarget \in [Procs -> {RaceUser} \X (1..MaxTarget)]
  /\ rsess = [p \in Procs |-> << >>]
  /\ rres = [p \in Procs |-> "none"]

\* the query for the locked mode and the test of its lock; the row it
\* returns stays in the session
RaceCheck(p) ==
  /\ rpc[p] = "start"
  /\ IF Cardinality(LockedRows(RaceUser)) > 1
       THEN /\ rpc' = [rpc EXCEPT ![p] = "done"]
            /\ rres' = [rres EXCEPT ![p] = "MultipleResultsFound"]
            /\ UNCHANGED rsess
     ELSE IF \E lm \in LockedRows(RaceUser) : LockRunning(modes[lm])
       THEN /\ rpc' = [rpc EXCEPT ![p] = "done"]
            /\ rres' = [rres EXCEPT ![p] = "LockedStateConflict"]
            /\ UNCHANGED rsess
     ELSE /\ rpc' = [rpc EXCEPT ![p] = "checked"]
          /\ rsess' = [rsess EXCEPT
                         ![p] = [id \in LockedRows(RaceUser) |-> modes[id]]]
          /\ UNCHANGED rres
  /\ UNCHANGED <<modes, now, last, pre, rtarget, filterVars, heurVars,
                 restVars, cacheVars>>

\* the query for all modes of the user: a row the session holds already
\* keeps the values it was loaded with
RaceLoad(p) ==
  /\ rpc[p] = "checked"
  /\ rpc' = [rpc EXCEPT ![p] = "loaded"]
  /\ rsess' = [rsess EXCEPT
                 ![p] = [id \in UserModes(RaceUser) |->
                           IF id \in DOMAIN rsess[p] THEN rsess[p][id]
                           ELSE modes[id]]]
  /\ UNCHANGED <<modes, now, last, pre, rtarget, rres, filterVars, heurVars,
                 restVars,
                 cacheVars>>

\* mutant of Flushed: every attribute the loop assigns is written, changed
\* or not
Flushed_allColumns(tbl, sess, t) ==
  [id \in DOMAIN tbl |->
     IF id \in DOMAIN sess
       THEN [tbl[id] EXCEPT !.is_active = (id = t), !.is_locked = FALSE,
                            !.lock_until = None]
       ELSE tbl[id]]

\* the UPDATEs of the unit of work: of every row the session holds, the
\* attributes whose value differs from the loaded one; the target active
Flushed(tbl, sess, t) ==
  [id \in DOMAIN tbl |->
     IF id \in DOMAIN sess
       THEN [tbl[id] EXCEPT
               !.is_active = IF id = t THEN TRUE
                             ELSE IF sess[id].is_active THEN FALSE ELSE @,
               !.is_locked = IF sess[id].is_locked THEN FALSE ELSE @,
               !.lock_until = IF sess[id].lock_until # None THEN None ELSE @]
       ELSE tbl[id]]

\* the loop over the loaded modes, the query for the target, the commit
RaceCommit(p) ==
  /\ rpc[p] = "loaded"
  /\ rpc' = [rpc EXCEPT ![p] = "done"]
  /\ IF ~Owned(RaceUser, rtarget[p])
       THEN /\ rres' = [rres EXCEPT ![p] = "NotFound"]
            /\ UNCHANGED modes
     ELSE /\ rres' = [rres EXCEPT ![p] = "ok"]
          /\ modes' = Flushed(modes, rsess[p], rtarget[p])
  /\ UNCHANGED <<now, last, pre, rtarget, rsess, filterVars, heurVars,
                 restVars, cacheVars>>

RaceNext ==
  \/ \E p \in Procs : RaceCheck(p)
  \/ \E p \in Procs : RaceLoad(p)
  \/ \E p \in Procs : RaceCommit(p)

SpecRace == RaceInit /\ [][RaceNext]_vars

\* ------------------------------------------------------------- strings
\* a string is the sequence of its characters
UpperCase ==
  <<"A", "B", "C", "D", "E", "F", "G", "H", "I", "J", "K", "L", "M", "N",
    "O", "P", "Q", "R", "S", "T", "U", "V", "W", "X", "Y", "Z">>

LowerCase ==
  <<"a", "b", "c", "d", "e", "f", "g", "h", "i", "j", "k", "l", "m", "n",
    "o", "p", "q", "r", "s", "t", "u", "v", "w", "x", "y", "z">>

LowerChar(c) ==
  IF \E i \in 1..Len(UpperCase) : UpperCase[i] = c
    THEN LowerCase[CHOOSE i \in 1..Len(UpperCase) : UpperCase[i] = c]
    ELSE c

\* str.lower()
StrLower(str) == [i \in 1..Len(str) |-> LowerChar(str[i])]

\* needle in hay
Contains(hay, needle) ==
  \E i \in 0..(Len(hay) - Len(needle)) :
    \A j \in 1..Len(needle) : hay[i + j] = needle[j]

\* x in list
InList(x, list) == \E i \in 1..Len(list) : list[i] = x

\* ------------------------------------- services/ai_classifier.py
\* text is a string here; characters outside ASCII are written with @, so the
\* three four-character patterns of clickbait_patterns and of the
\* punctuation test that start with U+00F0 U+0178 appear as "@@e1", "@@e2"
\* and "@@e3"

\* str.lower() and str.upper()
RECURSIVE Lower(_)
Lower(str) ==
  IF Len(str) = 0 THEN ""
  ELSE LowerChar(SubSeq(str, 1, 1)) \o Lower(SubSeq(str, 2, Len(str)))

UpperChar(c) ==
  IF \E i \in 1..Len(LowerCase) : LowerCase[i] = c
    THEN UpperCase[CHOOSE i \in 1..Len(LowerCase) : LowerCase[i] = c]
    ELSE c

RECURSIVE Upper(_)
Upper(str) ==
  IF Len(str) = 0 THEN ""
  ELSE UpperChar(SubSeq(str, 1, 1)) \o Upper(SubSeq(str, 2, Len(str)))

\* needle in hay, for strings
In(needle, hay) ==
  \E i \in 1..(Len(hay) - Len(needle) + 1) :
    SubSeq(hay, i, i + Len(needle) - 1) = needle

\* the loop "for kw in list: if kw in text: ...; break"
AnyIn(list, text) == \E i \in 1..Len(list) : In(list[i], text)

\* ' '.join(tags) from position i on
RECURSIVE Join(_, _)
Join(tags, i) ==
  IF i > Len(tags) THEN ""
  ELSE IF i = Len(tags) THEN tags[i]
  ELSE tags[i] \o " " \o Join(tags, i + 1)

\* description[:500]
DescriptionLimit == 500

Prefix(str, n) == IF Len(str) <= n THEN str ELSE SubSeq(str, 1, n)

\* sum(1 for c in original_title if c.isupper())
CountUpper(str) ==
  Cardinality({i \in 1..Len(str) :
                 \E k \in 1..Len(UpperCase) : UpperCase[k] = SubSeq(str, i, i)})

music_keywords ==
  <<"song", "music", "album", "concert", "lyrics", "lyrical", "audio",
    "official video", "official audio", "music video", "full song",
    "video song", "vedio song",
    "lofi", "lo-fi", "hip hop", "rap", "rock", "pop", "jazz", "classical",
    "edm", "dubstep", "remix", "cover", "acoustic", "instrumental",
    "tollywood", "bollywood", "kollywood", "sandalwood",
    "telugu", "hindi", "tamil", "kannada", "malayalam", "bhojpuri",
    "item song", "romantic song", "melody", "gaana", "gana",
    "promo song", "title song", "theme song", "trending song",
    "singer", "vocalist", "rapper", "dj", "producer",
    "beats", "track", "playlist", "mixtape",
    "live performance", "stage", "concert", "mtv", "spotify", "gaana">>

music_channel_indicators ==
  <<"music", "records", "audio", "songs", "entertainment", "media",
    "films", "pictures", "studios", "mangavaram", "lahari", "aditya",
    "zee", "t-series", "sony", "tips", "saregama", "eros">>

gaming_keywords ==
  <<"gameplay", "gaming", "playthrough", "stream", "gamer", "game",
    "walkthrough", "let's play", "esports", "twitch", "streamer",
    "minecraft", "fortnite", "valorant", "gta", "cod", "pubg",
    "elden ring", "zelda", "pokemon", "nintendo", "playstation", "xbox",
    "speedrun", "pro player", "rank", "competitive">>

comedy_keywords ==
  <<"comedy", "funny", "laugh", "humor", "joke", "stand up", "skit",
    "prank", "roast", "meme", "compilation", "try not to laugh",
    "fails", "bloopers", "reaction", "challenge">>

general_entertainment ==
  <<"movie", "film", "trailer", "teaser", "scenes", "clips",
    "vlog", "day in", "haul", "unboxing", "reaction",
    "celebrity", "interview", "talk show", "reality", "drama">>

education_keywords ==
  <<"tutorial", "course", "lecture", "lesson", "learn", "teaching",
    "education", "educational", "academy", "university", "college",
    "programming", "coding", "developer", "software development",
    "science", "physics", "chemistry", "mathematics", "biology",
    "history", "geography", "economics", "psychology",
    "certification", "exam prep", "study with me", "study tips">>

tech_keywords ==
  <<"technology", "tech review", "python", "javascript", "java",
    "machine learning", "ai", "artificial intelligence", "data science",
    "cloud", "devops", "kubernetes", "docker", "programming tutorial",
    "code", "developer", "engineering", "computer science">>

howto_keywords ==
  <<"how to", "diy", "tips", "tricks", "guide", "step by step",
    "recipe", "cooking", "baking", "makeup", "fashion", "style",
    "workout", "fitness", "yoga", "meditation", "self improvement">>

clickbait_patterns ==
  <<"you won't believe", "gone wrong", "shocking", "exposed",
    "prank", "@@e1", "@@e2", "secret", "revealed", "must see",
    "insane", "crazy", "epic fail", "best ever", "unbelievable">>

\* max and min of two scores
Max2(a, b) == IF a >= b THEN a ELSE b

Min2(a, b) == IF a <= b THEN a ELSE b

\* category and the two scores a stage sets
Stage(category, entertainment_score, depth_score) ==
  [category |-> category, entertainment_score |-> entertainment_score,
   depth_score |-> depth_score]

\* mutant of Gated: a later stage overrides the category of an earlier one
Gated_overrides(s, list, text, hit) ==
  IF AnyIn(list, text) THEN hit ELSE s

\* a stage under "if category == "ENTERTAINMENT":"; a stage that keeps the
\* category gives only its scores
Gated(s, list, text, hit) ==
  IF s.category = "ENTERTAINMENT" /\ AnyIn(list, text) THEN hit ELSE s

\* mutant of DurationAdjusted: a video of exactly 60 seconds and one of
\* exactly 1200 seconds are adjusted as well
DurationAdjusted_inclusive(s, duration) ==
  IF duration <= 60
    THEN (IF s.category # "MUSIC"
            THEN [s EXCEPT !.entertainment_score = Max2(@, 700),
                           !.depth_score = Min2(@, 300)]
            ELSE s)
  ELSE IF duration >= 1200
    THEN [s EXCEPT !.depth_score = Min2(@ + 200, 1000)]
  ELSE s

\* the duration-based adjustments, scores in thousandths
DurationAdjusted(s, duration) ==
  IF duration < 60
    THEN (IF s.category # "MUSIC"
            THEN [s EXCEPT !.entertainment_score = Max2(@, 700),
                           !.depth_score = Min2(@, 300)]
            ELSE s)
  ELSE IF duration > 1200
    THEN [s EXCEPT !.depth_score = Min2(@ + 200, 1000)]
  ELSE s

\* the keyword stages of _fallback_classification up to how-to detection
Cascade(text, channel) ==
  LET s0 == Stage("ENTERTAINMENT", 500, 500)
      s1 == IF AnyIn(music_keywords, text) THEN Stage("MUSIC", 800, 200)
            ELSE s0
      s2 == IF s1.category # "MUSIC" /\ AnyIn(music_channel_indicators, channel)
              THEN Stage("MUSIC", 700, 300)
            ELSE s1
      s3 == Gated(s2, gaming_keywords, text, Stage("GAMING", 800, 300))
      s4 == Gated(s3, comedy_keywords, text, Stage("COMEDY", 900, 100))
      s5 == Gated(s4, general_entertainment, text,
                  Stage("ENTERTAINMENT", 700, 300))
      s6 == Gated(s5, education_keywords, text, Stage("EDUCATION", 200, 800))
      s7 == Gated(s6, tech_keywords, text, Stage("SCIENCE_TECH", 300, 700))
  IN Gated(s7, howto_keywords, text, Stage("HOWTO_STYLE", 400, 600))

\* clickbait detection: the pattern list, the share of capitals in the
\* title and the punctuation test
ClickbaitScore(text, original_title) ==
  LET c0 == IF AnyIn(clickbait_patterns, text) THEN 700 ELSE 100
      c1 == IF 2 * CountUpper(original_title) > Max2(Len(original_title), 1)
              THEN Max2(c0, 500) ELSE c0
  IN IF In("!!!", original_title) \/ In("???", original_title)
        \/ In("@@e3", original_title)
       THEN Max2(c1, 400) ELSE c1

\* the text "{title} {' '.join(tags)} {description} {channel}"
TextOf(video) ==
  Lower(video.title) \o " "
  \o Join([i \in 1..Len(video.tags) |-> Lower(video.tags[i])], 1) \o " "
  \o Prefix(Lower(video.description), DescriptionLimit) \o " "
  \o Lower(video.channel_title)

_fallback_classification(video) ==
  LET s == DurationAdjusted(Cascade(TextOf(video), Lower(video.channel_title)),
                            video.duration_seconds)
  IN [category |-> s.category,
      confidence_score |-> 600,
      entertainment_score |-> s.entertainment_score,
      depth_score |-> s.depth_score,
      clickbait_score |-> ClickbaitScore(TextOf(video), video.title)]

\* videos handed to _fallback_classification
HeuristicInputs ==
  [title : {"", "Lofi Beats", "Minecraft Funny Fails", "Funny Python Tutorial",
            "Movie Trailer", "How To Cook", "Cloud Guide",
            "SHOCKING Walk!!!", "Quiet walk"},
   tags : {<< >>, <<"Vlog", "Yoga">>},
   description : {"", "Learn the physics"},
   channel_title : {"", "Sony Pictures"},
   duration_seconds : {0, 59, 60, 1200, 1201}]

HeurInit ==
  /\ LimitIdle
  /\ RankIdle
  /\ FeedIdle
  /\ ModesIdle
  /\ FilterIdle
  /\ RaceIdle
  /\ CacheIdle
  /\ hvideo \in HeuristicInputs
  /\ hcls = NoCls

FallbackClassify ==
  /\ hcls = NoCls
  /\ hcls' = _fallback_classification(hvideo)
  /\ UNCHANGED <<hvideo, modeVars, filterVars, raceVars, cacheVars, restVars>>

HeurNext == FallbackClassify

SpecHeuristic == HeurInit /\ [][HeurNext]_vars

\* ------------------------- services/ai_classifier.py, the cache
\* timedelta(hours=24), in units of 12 hours
TTL == 2

ClsFields ==
  {"category", "confidence_score", "entertainment_score", "depth_score",
   "clickbait_score"}

\* the metadata of the videos classified
VideoOf(v) ==
  IF v = "v1"
    THEN [title |-> "OFFICIAL MUSIC VIDEO - Song Name", tags |-> << >>,
          description |-> "", channel_title |-> "", duration_seconds |-> 240]
    ELSE [title |-> "Python Tutorial for Beginners",
          tags |-> <<"python", "programming">>, description |-> "",
          channel_title |-> "", duration_seconds |-> 3600]

CATEGORIES ==
  <<"EDUCATION", "STUDY", "TECH", "MUSIC", "PODCAST",
    "NEWS", "ENTERTAINMENT", "MEME", "CLICKBAIT", "GAMING">>

\* what self.model.generate_content and json.loads give: the call raises,
\* the text is not JSON, or the text is a JSON object; a number is written
\* [num |-> thousandths] and any other value [str |-> text]
AIResponses ==
  {[raised |-> TRUE],
   [raised |-> FALSE, json |-> FALSE],
   [raised |-> FALSE, json |-> TRUE,
    result |-> [category |-> "music", confidence_score |-> [num |-> 1500],
                entertainment_score |-> [num |-> 0 - 200],
                depth_score |-> [num |-> 450]]],
   [raised |-> FALSE, json |-> TRUE,
    result |-> [category |-> "Vlog", clickbait_score |-> [num |-> 250]]],
   [raised |-> FALSE, json |-> TRUE,
    result |-> [category |-> "NEWS", confidence_score |-> [str |-> "high"]]]}

\* result.get(key, default)
Get(result, key, default) ==
  IF key \in DOMAIN result THEN result[key] ELSE default

\* float(x) raises ValueError on a text that is no number
Floatable(x) == "num" \in DOMAIN x

\* mutant of Clamp: the number is taken as the model gave it
Clamp_unbounded(x) == x.num

\* min(1.0, max(0.0, float(x)))
Clamp(x) == Min2(1000, Max2(0, x.num))

ScoreKeys ==
  {"confidence_score", "entertainment_score", "depth_score", "clickbait_score"}

\* the default of result.get for each score
ScoreDefault(key) == IF key = "clickbait_score" THEN 0 ELSE 500

\* the try block of _classify_with_ai comes to its return statement
Parsed(response) ==
  /\ ~response.raised
  /\ response.json
  /\ \A k \in ScoreKeys :
       Floatable(Get(response.result, k, [num |-> ScoreDefault(k)]))

\* mutant of _classify_with_ai: a failed call gives the default values of
\* the normalisation instead of the heuristic Classification
_classify_with_ai_defaults(video, response) ==
  IF ~Parsed(response)
    THEN [category |-> "ENTERTAINMENT", confidence_score |-> 500,
          entertainment_score |-> 500, depth_score |-> 500,
          clickbait_score |-> 0]
  ELSE LET category == Upper(Get(response.result, "category", "ENTERTAINMENT"))
       IN [f \in ClsFields |->
             IF f = "category"
               THEN (IF InList(category, CATEGORIES) THEN category
                     ELSE "ENTERTAINMENT")
             ELSE Clamp(Get(response.result, f, [num |-> ScoreDefault(f)]))]

\* _classify_with_ai: any exception of the try block is answered with the
\* heuristic Classification
_classify_with_ai(video, response) ==
  IF ~Parsed(response) THEN _fallback_classification(video)
  ELSE LET category == Upper(Get(response.result, "category", "ENTERTAINMENT"))
       IN [f \in ClsFields |->
             IF f = "category"
               THEN (IF InList(category, CATEGORIES) THEN category
                     ELSE "ENTERTAINMENT")
             ELSE Clamp(Get(response.result, f, [num |-> ScoreDefault(f)]))]

\* how the AI call of a classify_video ended
AIOutcome(response) ==
  IF response.raised THEN "raised"
  ELSE IF ~Parsed(response) THEN "unparseable"
  ELSE "parsed"

\* the Classifications a call can compute: scores in thousandths
ClsInputs ==
  {_fallback_classification(VideoOf(v)) : v \in VideoIds}
  \cup {_classify_with_ai(VideoOf(v), r) : v \in VideoIds, r \in AIResponses}

\* mutant of ClsOfRow: a cached Classification is given the confidence of
\* the heuristics
ClsOfRow_heuristicConfidence(row) ==
  [f \in ClsFields |-> IF f = "confidence_score" THEN 600 ELSE row[f]]

\* VideoClassification(category=cached.category, ...)
ClsOfRow(row) == [f \in ClsFields |-> row[f]]

\* mutant of is_expired: the entry is expired at its expiry time already
is_expired_inclusive(row) == clock >= row.expires_at

\* ContentCache.is_expired
is_expired(row) == clock > row.expires_at

\* a row as the INSERT of _cache_result writes it: analyzed_at and expires_at
\* take their column defaults
NewRow(cls) ==
  [category |-> cls.category, confidence_score |-> cls.confidence_score,
   entertainment_score |-> cls.entertainment_score,
   depth_score |-> cls.depth_score, clickbait_score |-> cls.clickbait_score,
   analyzed_at |-> clock, expires_at |-> clock + TTL]

\* mutant of UpdatedRow: the expiry of the row is not refreshed
UpdatedRow_keepsExpiry(row, loaded, cls, stamp) ==
  [f \in DOMAIN row |->
     IF f \in ClsFields THEN cls[f]
     ELSE IF f = "analyzed_at" THEN stamp
     ELSE row[f]]

\* the UPDATE of _cache_result: of the row the session holds, the attributes
\* whose assigned value differs from the loaded one
UpdatedRow(row, loaded, cls, stamp) ==
  [f \in DOMAIN row |->
     IF f \in ClsFields THEN (IF cls[f] # loaded[f] THEN cls[f] ELSE row[f])
     ELSE IF f = "analyzed_at"
       THEN (IF stamp # loaded.analyzed_at THEN stamp ELSE row[f])
     ELSE (IF stamp + TTL # loaded.expires_at THEN stamp + TTL ELSE row[f])]

CacheInit ==
  /\ LimitIdle
  /\ RankIdle
  /\ FeedIdle
  /\ ModesIdle
  /\ FilterIdle
  /\ RaceIdle
  /\ HeurIdle
  /\ cache = << >>
  /\ clock = 0
  /\ calls \in [Procs -> {[NoCall EXCEPT !.pc = "start", !.video = v,
                                        !.force_refresh = fr, !.use_ai = ai] :
                            v \in VideoIds, fr \in BOOLEAN, ai \in BOOLEAN}]
  /\ clast = << >>

\* a statement on the session raises: the store cannot be reached
StoreFails(p, step) ==
  calls' = [calls EXCEPT ![p].pc = "done", ![p].result = "OperationalError",
                         ![p].failed = step]

\* classify_video up to the return of the cached Classification: _get_cached
CacheLookup(p) ==
  /\ calls[p].pc = "start"
  /\ LET v == calls[p].video IN
       IF calls[p].force_refresh
         THEN calls' = [calls EXCEPT ![p].pc = "compute",
                                     ![p].lookup = "skipped"]
         ELSE \/ StoreFails(p, "lookup")
              \/ /\ v \notin DOMAIN cache
                 /\ calls' = [calls EXCEPT ![p].pc = "compute",
                                           ![p].lookup = "absent"]
              \/ /\ v \in DOMAIN cache
                 /\ is_expired(cache[v])
                 /\ calls' = [calls EXCEPT ![p].pc = "compute",
                                           ![p].lookup = "expired",
                                           ![p].loaded = cache[v]]
              \/ /\ v \in DOMAIN cache
                 /\ ~is_expired(cache[v])
                 /\ calls' = [calls EXCEPT ![p].pc = "done",
                                           ![p].lookup = "hit",
                                           ![p].loaded = cache[v],
                                           ![p].result = "ok",
                                           ![p].out = ClsOfRow(cache[v])]
  /\ UNCHANGED <<cache, clock, clast, modeVars, filterVars, heurVars,
                 restVars, raceVars>>

\* _fallback_classification or _classify_with_ai: the Classification is
\* computed from the video and, with use_ai, the response of the model
CacheCompute(p) ==
  /\ calls[p].pc = "compute"
  /\ IF ~calls[p].use_ai
       THEN calls' = [calls EXCEPT
                        ![p].pc = "select",
                        ![p].cls = _fallback_classification(VideoOf(calls[p].video))]
     ELSE \E r \in AIResponses :
       calls' = [calls EXCEPT
                   ![p].pc = "select", ![p].ai = AIOutcome(r),
                   ![p].cls = _classify_with_ai(VideoOf(calls[p].video), r)]
  /\ UNCHANGED <<cache, clock, clast, modeVars, filterVars, heurVars,
                 restVars, raceVars>>

\* _cache_result up to the commit: the query for the existing row and the
\* assignments to it; a row the session holds already keeps its values
CacheSelect(p) ==
  /\ calls[p].pc = "select"
  /\ LET v == calls[p].video IN
       \/ StoreFails(p, "select")
       \/ calls' = [calls EXCEPT
                      ![p].pc = "commit",
                      ![p].existing = (v \in DOMAIN cache),
                      ![p].loaded = IF v \in DOMAIN cache /\ @ = NoRow
                                      THEN cache[v] ELSE @,
                      ![p].stamp = clock]
  /\ UNCHANGED <<cache, clock, clast, modeVars, filterVars, heurVars,
                 restVars, raceVars>>

\* the commit of _cache_result: UPDATE of the existing row, or INSERT, which
\* the primary key video_id refuses when the row exists by now
CacheCommit(p) ==
  /\ calls[p].pc = "commit"
  /\ LET v == calls[p].video
         c == calls[p].cls
     IN \/ /\ StoreFails(p, "commit")
           /\ UNCHANGED <<cache, clast>>
        \/ /\ calls[p].existing
           /\ cache' = [cache EXCEPT
                          ![v] = UpdatedRow(@, calls[p].loaded, c,
                                            calls[p].stamp)]
           /\ clast' = Upsert(clast, [i \in {v} |-> c])
           /\ calls' = [calls EXCEPT ![p].pc = "done",
                                     ![p].result = "ok", ![p].out = c]
        \/ /\ ~calls[p].existing
           /\ v \in DOMAIN cache
           /\ calls' = [calls EXCEPT ![p].pc = "done",
                                     ![p].result = "IntegrityError"]
           /\ UNCHANGED <<cache, clast>>
        \/ /\ ~calls[p].existing
           /\ v \notin DOMAIN cache
           /\ cache' = Upsert(cache, [i \in {v} |-> NewRow(c)])
           /\ clast' = Upsert(clast, [i \in {v} |-> c])
           /\ calls' = [calls EXCEPT ![p].pc = "done",
                                     ![p].result = "ok", ![p].out = c]
  /\ UNCHANGED <<clock, modeVars, filterVars, heurVars, restVars, raceVars>>

CacheTick ==
  /\ clock < MaxClock
  /\ clock' = clock + 1
  /\ UNCHANGED <<cache, calls, clast, modeVars, filterVars, heurVars,
                 restVars, raceVars>>

CacheNext ==
  \/ \E p \in Procs : CacheLookup(p)
  \/ \E p \in Procs : CacheCompute(p)
  \/ \E p \in Procs : CacheSelect(p)
  \/ \E p \in Procs : CacheCommit(p)
  \/ CacheTick

SpecCache == CacheInit /\ [][CacheNext]_vars

\* ------------------------------------- services/filter_engine.py
\* scores are counted in thousandths; format(score, ".2f") gives hundredths,
\* a tie going to the even neighbour
Fmt2(score) ==
  LET q == score \div 10
      r == score % 10
  IN IF r > 5 \/ (r = 5 /\ q % 2 = 1) THEN q + 1 ELSE q

\* mutant of Blocked: the reason left out of the dictionary
Blocked_noReason(reason) == [allowed |-> FALSE]

Blocked(reason) == [allowed |-> FALSE, reason |-> reason]

Allowed == [allowed |-> TRUE]

\* mutant of KeywordScan: the last matching keyword is reported
KeywordScan_lastMatch(keywords, i, title_lower, description_lower) ==
  LET hits == {k \in i..Len(keywords) :
                 \/ Contains(title_lower, StrLower(keywords[k]))
                 \/ Contains(description_lower, StrLower(keywords[k]))}
  IN IF hits = {} THEN [allowed |-> TRUE]
     ELSE [allowed |-> FALSE,
           reason |-> <<"Video contains blocked keyword: '",
                        keywords[CHOOSE k \in hits : \A h \in hits : h <= k],
                        "'">>]

\* the loop over mode.blocked_keywords from position i on
RECURSIVE KeywordScan(_, _, _, _)
KeywordScan(keywords, i, title_lower, description_lower) ==
  IF i > Len(keywords) THEN Allowed
  ELSE LET keyword_lower == StrLower(keywords[i]) IN
    IF Contains(title_lower, keyword_lower)
       \/ Contains(description_lower, keyword_lower)
      THEN Blocked(<<"Video contains blocked keyword: '", keywords[i], "'">>)
      ELSE KeywordScan(keywords, i + 1, title_lower, description_lower)

\* mutant of BlockedCategory: the block-list is not consulted
BlockedCategory_skipped(category, blocked_categories) == FALSE

\* the block-list test
BlockedCategory(category, blocked_categories) ==
  /\ blocked_categories # << >>
  /\ InList(category, blocked_categories)

\* mutant of NotAllowed: an empty allow-list rejects every category
NotAllowed_emptyRejects(category, allowed_categories) ==
  ~InList(category, allowed_categories)

\* the allow-list test: an empty list is falsy and rejects nothing
NotAllowed(category, allowed_categories) ==
  /\ allowed_categories # << >>
  /\ ~InList(category, allowed_categories)

\* mutant of TrendingCheck: block_trending is evaluated
TrendingCheck_blocks(video, mode) ==
  IF mode.block_trending
    THEN Blocked(<<"Trending videos are blocked in this focus mode">>)
    ELSE Allowed

\* step 8 holds comments only; every check has passed
TrendingCheck(video, mode) == Allowed

check_video(video, classification, mode) ==
  IF mode.block_shorts /\ video.is_short
    THEN Blocked(<<"Shorts are blocked in this focus mode">>)
  ELSE IF video.duration_seconds < mode.min_duration_seconds
    THEN Blocked(<<"Video too short (minimum ",
                   mode.min_duration_seconds \div 60, " minutes required)">>)
  ELSE IF BlockedCategory(classification.category, mode.blocked_categories)
    THEN Blocked(<<"Category '", classification.category,
                   "' is blocked in this focus mode">>)
  ELSE IF NotAllowed(classification.category, mode.allowed_categories)
    THEN Blocked(<<"Category '", classification.category,
                   "' is not allowed in this focus mode">>)
  ELSE IF mode.allowed_languages # << >> /\ video.language # ""
          /\ ~InList(video.language, mode.allowed_languages)
    THEN Blocked(<<"Language '", video.language,
                   "' is not allowed in this focus mode">>)
  ELSE IF classification.clickbait_score > mode.max_clickbait_score
    THEN Blocked(<<"Video detected as clickbait (score: ",
                   Fmt2(classification.clickbait_score), ")">>)
  ELSE IF classification.entertainment_score > mode.max_entertainment_score
    THEN Blocked(<<"Video too entertaining for this focus mode (score: ",
                   Fmt2(classification.entertainment_score), ")">>)
  ELSE IF mode.blocked_keywords # << >>
          /\ ~KeywordScan(mode.blocked_keywords, 1, StrLower(video.title),
                          StrLower(video.description)).allowed
    THEN KeywordScan(mode.blocked_keywords, 1, StrLower(video.title),
                     StrLower(video.description))
  ELSE TrendingCheck(video, mode)

\* videos, classifications and modes handed to check_video
VideoInputs ==
  [is_short : BOOLEAN,
   duration_seconds : {30, 200},
   language : {"", "en", "hi"},
   title : {<< >>, <<"A", "b">>, <<"c">>},
   description : {<< >>, <<"b">>}]

ClassificationInputs ==
  [category : {"EDUCATION", "MUSIC", "ENTERTAINMENT"},
   clickbait_score : {500, 700},
   entertainment_score : {600, 875}]

ModeInputs ==
  [block_shorts : BOOLEAN,
   block_trending : BOOLEAN,
   min_duration_seconds : {0, 180},
   blocked_categories : {<< >>, <<"MUSIC">>},
   allowed_categories : {<< >>, <<"EDUCATION">>},
   allowed_languages : {<< >>, <<"en">>},
   max_clickbait_score : {500},
   max_entertainment_score : {600},
   blocked_keywords : {<< >>, << <<"B">>, <<"a", "b">> >>,
                       << <<"a", "B">>, <<"c">> >>}]

FilterInit ==
  /\ LimitIdle
  /\ RankIdle
  /\ FeedIdle
  /\ ModesIdle
  /\ RaceIdle
  /\ CacheIdle
  /\ HeurIdle
  /\ fin \in [video : VideoInputs, classification : ClassificationInputs,
              mode : ModeInputs]
  /\ verdict = NoVerdict

CheckVideo ==
  /\ verdict = NoVerdict
  /\ verdict' = check_video(fin.video, fin.classification, fin.mode)
  /\ UNCHANGED <<fin, modeVars, raceVars, cacheVars, heurVars, restVars>>

FilterNext == CheckVideo

SpecFilter == FilterInit /\ [][FilterNext]_vars

\* --------------------- services/focus_engine.py, check_time_limit
\* the rows of watch_history are counted up to MaxWatch and the clock runs
\* to MaxWNow
MaxWatch == 3

MaxWNow == 3

\* a day in units of 12 hours
DayLen == 2

\* watch_duration_seconds of the events tracked
WatchSeconds == {59, 3541, 4200}

\* daily_time_limit_minutes: NULL or at least one minute
DailyLimits == {None, 1, 60}

\* utcnow().replace(hour=0, minute=0, second=0, microsecond=0)
today_start(t) == t - (t % DayLen)

\* SUM(watch_duration_seconds) of the rows of a user watched since the
\* time given, NULL when no row matches; rows i.. of the table
RECURSIVE SumSince(_, _, _, _)
SumSince(rows, i, user, since) ==
  IF i > Len(rows) THEN None
  ELSE LET rest == SumSince(rows, i + 1, user, since) IN
    IF rows[i].user_id = user /\ rows[i].watched_at >= since
      THEN rows[i].watch_duration_seconds + (IF rest = None THEN 0 ELSE rest)
      ELSE rest

\* mutant of Exceeded: the limit itself is not yet exceeded
Exceeded_strict(used_minutes, limit) == used_minutes > limit

Exceeded(used_minutes, limit) == used_minutes >= limit

check_time_limit(rows, t, user, daily_time_limit_minutes) ==
  IF daily_time_limit_minutes = None \/ daily_time_limit_minutes = 0
    THEN [has_limit |-> FALSE, exceeded |-> FALSE, used_minutes |-> 0,
          limit_minutes |-> None, remaining_minutes |-> None]
  ELSE
    LET scalar == SumSince(rows, 1, user, today_start(t))
        total_seconds == IF scalar = None \/ scalar = 0 THEN 0 ELSE scalar
        used_minutes == total_seconds \div 60
    IN [has_limit |-> TRUE,
        exceeded |-> Exceeded(used_minutes, daily_time_limit_minutes),
        used_minutes |-> used_minutes,
        limit_minutes |-> daily_time_limit_minutes,
        remaining_minutes |-> Max2(0, daily_time_limit_minutes - used_minutes)]

LimitInit ==
  /\ ModesIdle
  /\ FilterIdle
  /\ RaceIdle
  /\ CacheIdle
  /\ HeurIdle
  /\ RankIdle
  /\ FeedIdle
  /\ watch = << >>
  /\ wnow = 0
  /\ tl = NoLimit

\* POST /watch: a row of the user, watched_at defaulting to utcnow()
TrackWatch ==
  /\ Len(watch) < MaxWatch
  /\ \E u \in Users, d \in WatchSeconds :
       watch' = Append(watch, [user_id |-> u, watch_duration_seconds |-> d,
                               watched_at |-> wnow])
  /\ UNCHANGED <<wnow, tl, modeVars, filterVars, raceVars, cacheVars,
                 heurVars, rankVars, feedVars, rules>>

CheckTimeLimit ==
  /\ \E u \in Users, l \in DailyLimits :
       tl' = [user |-> u, daily_time_limit_minutes |-> l,
              result |-> check_time_limit(watch, wnow, u, l)]
  /\ UNCHANGED <<watch, wnow, modeVars, filterVars, raceVars, cacheVars,
                 heurVars, rankVars, feedVars, rules>>

\* twelve hours pass
LimitTick ==
  /\ wnow < MaxWNow
  /\ wnow' = wnow + 1
  /\ UNCHANGED <<watch, tl, modeVars, filterVars, raceVars, cacheVars,
                 heurVars, rankVars, feedVars, rules>>

LimitNext ==
  \/ TrackWatch
  \/ CheckTimeLimit
  \/ LimitTick

SpecLimit == LimitInit /\ [][LimitNext]_vars

\* ------------- services/personalization.py, get_personalized_ranking
\* the list handed over holds up to MaxVideos videos
MaxVideos == 3

\* dict.get(key, default)
GetOr(d, key, default) == IF key \in DOMAIN d THEN d[key] ELSE default

\* scores of the classification are counted in thousandths and the
\* personalization score in ten-thousandths: 1.0 is 10000, depth * 0.3 is
\* 3 * depth and clickbait * 0.4 is 4 * clickbait
personalization_score(video, preferences) ==
  LET category == GetOr(video, "category", "")
      boost == IF InList(category, preferences.preferred_categories)
                 THEN 5000 ELSE 0
      penalty == IF InList(category, preferences.avoided_categories)
                   THEN 5000 ELSE 0
      depth == GetOr(video, "depth_score", 500)
      clickbait == GetOr(video, "clickbait_score", 0)
  IN 10000 + boost - penalty + 3 * depth - 4 * clickbait

\* {**video, "personalization_score": score}
Scored(video, preferences) ==
  [k \in DOMAIN video \cup {"personalization_score"} |->
     IF k = "personalization_score"
       THEN personalization_score(video, preferences)
       ELSE video[k]]

\* mutant of StaysBefore: of two equal scores the later one comes first
StaysBefore_strict(a, b) ==
  a.personalization_score > b.personalization_score

\* sorted(key=..., reverse=True) is stable: an element stays before a later
\* one unless the later one has the greater key
StaysBefore(a, b) == a.personalization_score >= b.personalization_score

\* the sorted list with x, which came after all of its elements, put in
RECURSIVE Inserted(_, _)
Inserted(sorted, x) ==
  IF sorted = << >> THEN <<x>>
  ELSE IF StaysBefore(sorted[Len(sorted)], x) THEN Append(sorted, x)
  ELSE Append(Inserted(SubSeq(sorted, 1, Len(sorted) - 1), x),
              sorted[Len(sorted)])

RECURSIVE SortedDesc(_, _)
SortedDesc(list, n) ==
  IF n = 0 THEN << >> ELSE Inserted(SortedDesc(list, n - 1), list[n])

get_personalized_ranking(videos, preferences) ==
  LET scored_videos == [i \in 1..Len(videos) |->
                          Scored(videos[i], preferences)]
  IN SortedDesc(scored_videos, Len(scored_videos))

\* the video dictionaries ranked; one of them has none of the optional keys
RankVideos ==
  {[video_id |-> "a", category |-> "MUSIC", depth_score |-> 500,
    clickbait_score |-> 0],
   [video_id |-> "b", category |-> "EDUCATION", depth_score |-> 1000,
    clickbait_score |-> 500],
   [video_id |-> "c"],
   [video_id |-> "d", category |-> "EDUCATION", depth_score |-> 0,
    clickbait_score |-> 0]}

RECURSIVE ListsOf(_, _)
ListsOf(S, n) ==
  IF n = 0 THEN {<< >>}
  ELSE LET shorter == ListsOf(S, n - 1)
       IN shorter \cup {Append(l, x) : l \in shorter, x \in S}

RankInit ==
  /\ ModesIdle
  /\ FilterIdle
  /\ RaceIdle
  /\ CacheIdle
  /\ HeurIdle
  /\ LimitIdle
  /\ FeedIdle
  /\ ranking \in [videos : ListsOf(RankVideos, MaxVideos),
                   preferred_categories : {<< >>, <<"EDUCATION">>},
                   avoided_categories : {<< >>, <<"MUSIC">>, <<"EDUCATION">>}]
  /\ ranked = NoList

Rank ==
  /\ ranked = NoList
  /\ ranked' = [sorted_videos |->
                  get_personalized_ranking(ranking.videos, ranking)]
  /\ UNCHANGED <<ranking, modeVars, filterVars, raceVars, cacheVars,
                 heurVars, limitVars, feedVars, rules>>

RankNext == Rank

SpecRank == RankInit /\ [][RankNext]_vars

\* ------------------------------------------- routers/feed.py, get_feed
\* the service returns up to MaxFetched videos and max_results is
\* 1..MaxResults
MaxFetched == 2

MaxResults == 2

\* the defaults of the columns of focus_modes
FocusModeDefaults ==
  [allowed_categories |-> << >>, blocked_categories |-> << >>,
   min_duration_seconds |-> 0, allowed_languages |-> << >>,
   max_clickbait_score |-> 1000, max_entertainment_score |-> 1000,
   block_shorts |-> FALSE, block_trending |-> FALSE,
   daily_time_limit_minutes |-> None, blocked_keywords |-> << >>]

\* scores in thousandths
PRESET_MODES ==
  [study |->
     [allowed_categories |-> <<"EDUCATION">>,
      blocked_categories |-> <<"ENTERTAINMENT", "COMEDY", "GAMING", "MUSIC",
                               "SCIENCE_TECH", "HOWTO_STYLE">>,
      min_duration_seconds |-> 180, max_clickbait_score |-> 500,
      max_entertainment_score |-> 600, block_shorts |-> TRUE,
      block_trending |-> FALSE,
      blocked_keywords |-> <<"prank", "gone wrong", "challenge">>],
   deep_work |->
     [allowed_categories |-> <<"EDUCATION", "SCIENCE_TECH">>,
      blocked_categories |-> <<"ENTERTAINMENT", "COMEDY", "GAMING",
                               "NEWS_POLITICS", "MUSIC", "SPORTS">>,
      min_duration_seconds |-> 300, max_clickbait_score |-> 300,
      max_entertainment_score |-> 400, block_shorts |-> TRUE,
      block_trending |-> TRUE, daily_time_limit_minutes |-> 60],
   music |->
     [allowed_categories |-> <<"MUSIC">>, blocked_categories |-> << >>,
      min_duration_seconds |-> 0, max_clickbait_score |-> 1000,
      max_entertainment_score |-> 1000, block_shorts |-> FALSE,
      block_trending |-> FALSE],
   relax |->
     [allowed_categories |-> << >>,
      blocked_categories |-> <<"NEWS_POLITICS">>,
      min_duration_seconds |-> 0, max_clickbait_score |-> 500,
      max_entertainment_score |-> 800, block_shorts |-> TRUE,
      block_trending |-> FALSE, daily_time_limit_minutes |-> 60],
   gaming |->
     [allowed_categories |-> <<"GAMING", "ENTERTAINMENT">>,
      blocked_categories |-> << >>,
      min_duration_seconds |-> 0, max_clickbait_score |-> 700,
      max_entertainment_score |-> 1000, block_shorts |-> FALSE,
      block_trending |-> FALSE],
   news |->
     [allowed_categories |-> <<"NEWS_POLITICS", "EDUCATION">>,
      blocked_categories |-> <<"ENTERTAINMENT", "COMEDY", "GAMING">>,
      min_duration_seconds |-> 0, max_clickbait_score |-> 400,
      max_entertainment_score |-> 500, block_shorts |-> TRUE,
      block_trending |-> FALSE],
   fitness |->
     [allowed_categories |-> <<"SPORTS", "HOWTO_STYLE", "PEOPLE_BLOGS">>,
      blocked_categories |-> <<"GAMING", "COMEDY">>,
      min_duration_seconds |-> 0, max_clickbait_score |-> 500,
      max_entertainment_score |-> 700, block_shorts |-> FALSE,
      block_trending |-> FALSE],
   travel |->
     [allowed_categories |-> <<"TRAVEL_EVENTS", "PEOPLE_BLOGS",
                               "FILM_ANIMATION">>,
      blocked_categories |-> <<"GAMING", "NEWS_POLITICS">>,
      min_duration_seconds |-> 0, max_clickbait_score |-> 500,
      max_entertainment_score |-> 800, block_shorts |-> FALSE,
      block_trending |-> FALSE],
   tech |->
     [allowed_categories |-> <<"SCIENCE_TECH", "EDUCATION", "HOWTO_STYLE">>,
      blocked_categories |-> <<"ENTERTAINMENT", "COMEDY">>,
      min_duration_seconds |-> 300, max_clickbait_score |-> 400,
      max_entertainment_score |-> 500, block_shorts |-> TRUE,
      block_trending |-> FALSE]]

\* FocusMode(user_id=user.id, **data): the columns not given take their
\* defaults
FocusModeOf(data) ==
  [f \in DOMAIN FocusModeDefaults |->
     IF f \in DOMAIN data THEN data[f] ELSE FocusModeDefaults[f]]

\* mode_data of a create_mode request
CustomModes ==
  {[allowed_categories |-> <<"ENTERTAINMENT">>,
    blocked_keywords |-> <<"prank">>]}

\* the configurations the active mode can have
FeedModes ==
  {FocusModeOf(PRESET_MODES[k]) : k \in DOMAIN PRESET_MODES}
  \cup {FocusModeOf(c) : c \in CustomModes}

\* no mode of the user is active
NoMode == [absent |-> TRUE]

\* a text as the list of its characters, which is how the model of
\* check_video reads titles, descriptions and keywords
Chars(str) == [i \in 1..Len(str) |-> SubSeq(str, i, i)]

\* the video dictionary as check_video reads it
FilterVideo(video) ==
  [is_short |-> GetOr(video, "is_short", FALSE),
   duration_seconds |-> GetOr(video, "duration_seconds", 0),
   language |-> GetOr(video, "language", ""),
   title |-> Chars(GetOr(video, "title", "")),
   description |-> Chars(GetOr(video, "description", ""))]

\* FilterEngine(active_mode)
FilterMode(mode) ==
  [mode EXCEPT !.blocked_keywords =
     [i \in 1..Len(mode.blocked_keywords) |-> Chars(mode.blocked_keywords[i])]]

\* YouTubeService._is_short
_is_short(duration_seconds, title) ==
  \/ duration_seconds <= 60
  \/ In("#shorts", Lower(title))
  \/ In("#short", Lower(title))

FeedVideoIds == VideoIds \cup {"v3"}

\* YouTubeService._format_video: the videos the platform returns; no
\* default language is set
ApiVideo(v) ==
  LET m == IF v \in VideoIds THEN VideoOf(v)
           ELSE [title |-> "Epic Prank Gone Wrong #shorts", tags |-> << >>,
                 description |-> "", channel_title |-> "",
                 duration_seconds |-> 90]
  IN [id |-> v, title |-> m.title, description |-> m.description,
      channel_title |-> m.channel_title, tags |-> m.tags,
      duration_seconds |-> m.duration_seconds,
      is_short |-> _is_short(m.duration_seconds, m.title),
      language |-> ""]

ApiVideos == [v \in FeedVideoIds |-> ApiVideo(v)]

\* a row of content_cache that has not expired, written by an earlier call
CachedCls ==
  [category |-> "ENTERTAINMENT", confidence_score |-> 900,
   entertainment_score |-> 800, depth_score |-> 200, clickbait_score |-> 250]

\* classify_video(video, db) with use_ai left at False: the cached row or
\* the heuristic cascade
Heuristics == [v \in FeedVideoIds |-> _fallback_classification(ApiVideos[v])]

classify_video(video, cached) ==
  IF video.id \in cached THEN CachedCls ELSE Heuristics[video.id]

\* DEMO_VIDEOS, four of its entries with their categories
DEMO_VIDEOS ==
  <<[id |-> "edu_1", category |-> "EDUCATION", duration_seconds |-> 3600,
     title |-> "Python Tutorial for Beginners - Full Course"],
    [id |-> "howto_1", category |-> "HOWTO_STYLE", duration_seconds |-> 600,
     title |-> "How to Cook Perfect Pasta Every Time"],
    [id |-> "music_1", category |-> "MUSIC", duration_seconds |-> 0,
     title |-> "Lofi Hip Hop Radio - Beats to Study/Relax to"],
    [id |-> "ent_20", category |-> "ENTERTAINMENT", duration_seconds |-> 1500,
     title |-> "Prank Wars Compilation"]>>

\* get_demo_videos: the entries of the categories asked for, all entries
\* when none is asked for, with the fields added to each; the random suffix
\* of the id is left out
get_demo_videos(categories) ==
  {[id |-> d.id, title |-> d.title, category |-> d.category,
    duration_seconds |-> d.duration_seconds,
    is_short |-> (d.duration_seconds < 60),
    clickbait_score |-> 100,
    entertainment_score |-> IF d.category \in {"EDUCATION", "SCIENCE_TECH"}
                              THEN 300 ELSE 600] :
     d \in {DEMO_VIDEOS[i] : i \in {j \in 1..Len(DEMO_VIDEOS) :
              categories = << >> \/ InList(DEMO_VIDEOS[j].category, categories)}}}

\* FeedItem(...)
FeedItem(video, category, clickbait_score, entertainment_score) ==
  [video_id |-> video.id, title |-> video.title,
   duration_seconds |-> GetOr(video, "duration_seconds", 0),
   is_short |-> GetOr(video, "is_short", FALSE),
   category |-> category, clickbait_score |-> clickbait_score,
   entertainment_score |-> entertainment_score]

\* the tests of the demo-data loop that end in "continue"
DemoFiltered(video, active_mode) ==
  LET video_category == GetOr(video, "category", "ENTERTAINMENT") IN
    \/ /\ active_mode.allowed_categories # << >>
       /\ ~InList(video_category, active_mode.allowed_categories)
    \/ /\ active_mode.blocked_categories # << >>
       /\ InList(video_category, active_mode.blocked_categories)
    \/ GetOr(video, "duration_seconds", 0) < active_mode.min_duration_seconds
    \/ active_mode.block_shorts /\ GetOr(video, "is_short", FALSE)

\* the response while the loops run: the items, the count of the videos
\* filtered and, on the platform path, classification and filter_result of
\* each video looked at
NoItems == [items |-> << >>, filtered_count |-> 0, checked |-> << >>]

\* the loop over all_videos of the demo-data path from video i on
RECURSIVE DemoLoop(_, _, _, _, _)
DemoLoop(all_videos, i, active_mode, max_results, acc) ==
  IF i > Len(all_videos) \/ Len(acc.items) >= max_results THEN acc
  ELSE LET video == all_videos[i] IN
    IF DemoFiltered(video, active_mode)
      THEN DemoLoop(all_videos, i + 1, active_mode, max_results,
                    [acc EXCEPT !.filtered_count = @ + 1])
      ELSE DemoLoop(all_videos, i + 1, active_mode, max_results,
                    [acc EXCEPT !.items =
                       Append(@, FeedItem(video,
                                   GetOr(video, "category", "ENTERTAINMENT"),
                                   GetOr(video, "clickbait_score", 100),
                                   GetOr(video, "entertainment_score", 300)))])

\* the loop over videos["items"] of the platform path from video i on
RECURSIVE ApiLoop(_, _, _, _, _, _)
ApiLoop(items, i, active_mode, max_results, cached, acc) ==
  IF i > Len(items) \/ Len(acc.items) >= max_results THEN acc
  ELSE LET video == items[i]
           classification == classify_video(video, cached)
           filter_result == check_video(FilterVideo(video), classification,
                                        FilterMode(active_mode))
           seen == Append(acc.checked,
                          [video_id |-> video.id,
                           classification |-> classification,
                           filter_result |-> filter_result])
       IN IF filter_result.allowed
            THEN ApiLoop(items, i + 1, active_mode, max_results, cached,
                         [acc EXCEPT !.checked = seen,
                                     !.items =
                            Append(@, FeedItem(video, classification.category,
                                        classification.clickbait_score,
                                        classification.entertainment_score))])
            ELSE ApiLoop(items, i + 1, active_mode, max_results, cached,
                         [acc EXCEPT !.checked = seen,
                                     !.filtered_count = @ + 1])

get_feed(req) ==
  IF req.active_mode = NoMode THEN [error |-> "No active focus mode"]
  ELSE IF req.use_demo_data
    THEN DemoLoop(req.videos, 1, req.active_mode, req.max_results, NoItems)
    ELSE ApiLoop(req.videos, 1, req.active_mode, req.max_results,
                 req.cached, NoItems)

\* what the request meets: the active mode, whether the platform failed,
\* the videos fetched in their order (after the shuffle on the demo-data
\* path; the generated videos carry the same fields and scores as the
\* entries of DEMO_VIDEOS) and the videos that have a cached row
FeedRequests ==
  {[active_mode |-> NoMode, use_demo_data |-> FALSE, videos |-> << >>,
    max_results |-> 1, cached |-> {}]}
  \cup {[active_mode |-> m, use_demo_data |-> FALSE, videos |-> l,
         max_results |-> n, cached |-> c] :
          m \in FeedModes,
          l \in ListsOf({ApiVideos[v] : v \in FeedVideoIds}, MaxFetched),
          n \in 1..MaxResults, c \in {{}, {"v2"}}}
  \cup UNION {{[active_mode |-> m, use_demo_data |-> TRUE, videos |-> l,
                max_results |-> n, cached |-> {}] :
                 l \in ListsOf(get_demo_videos(m.allowed_categories),
                               MaxFetched),
                 n \in 1..MaxResults} : m \in FeedModes}

FeedInit ==
  /\ ModesIdle
  /\ FilterIdle
  /\ RaceIdle
  /\ CacheIdle
  /\ HeurIdle
  /\ LimitIdle
  /\ RankIdle
  /\ rules = << >>
  /\ freq \in FeedRequests
  /\ fitems = NoList

GetFeed ==
  /\ fitems = NoList
  /\ fitems' = get_feed(freq)
  /\ UNCHANGED <<freq, rules, modeVars, filterVars, raceVars, cacheVars,
                 heurVars, limitVars, rankVars>>

FeedNext == GetFeed

SpecFeed == FeedInit /\ [][FeedNext]_vars

\* the service starts on an empty database or on one that holds rows of
\* other users
Init ==
  /\ LimitIdle
  /\ RankIdle
  /\ FeedIdle
  /\ modes \in {<< >>, StoredRows}
  /\ now = 0
  /\ last = RespErr("init", "nobody", NoId, "ok")
  /\ pre = NoPre
  /\ FilterIdle
  /\ RaceIdle
  /\ CacheIdle
  /\ HeurIdle

\* the rules left when the modes of ids are deleted: the relationship
\* filter_rules cascades the deletion
RulesWithout(ids) == SelectSeq(rules, LAMBDA r : r.mode_id \notin ids)

\* a request of user u is served
Call(u) ==
  /\ pre' = PreOf(u)
  /\ UNCHANGED <<filterVars, heurVars, limitVars, rankVars, feedVars,
                 raceVars, cacheVars>>

\* ---------------------------------------------------- routers/modes.py
ListModes(u) ==
  /\ Call(u)
  /\ modes' = IF UserModes(u) = {} THEN Upsert(modes, PresetRows(u, FALSE))
              ELSE modes
  /\ last' = RespErr("list_modes", u, NoId, "ok")
  /\ UNCHANGED <<now, rules>>

ResetModes(u) ==
  /\ Call(u)
  /\ modes' = Upsert(Without(modes, UserModes(u)), PresetRows(u, TRUE))
  /\ rules' = RulesWithout(UserModes(u))
  /\ last' = RespErr("reset_modes", u, NoId, "ok")
  /\ UNCHANGED now

\* the slot a new row of u gets (a fresh uuid4: no row has it)
FreshSlot(u) == CHOOSE s \in Slots :
  /\ <<u, s>> \notin DOMAIN modes
  /\ \A r \in Slots : r < s => <<u, r>> \in DOMAIN modes

CustomRows(u) == {id \in UserModes(u) : modes[id].cfg \in CfgInputs}

CreateMode(u, c) ==
  /\ Call(u)
  /\ Cardinality(CustomRows(u)) < MaxCustom
  /\ \E s \in Slots : <<u, s>> \notin DOMAIN modes
  /\ LET id == <<u, FreshSlot(u)>> IN
       /\ modes' = Upsert(modes, [i \in {id} |-> NewMode(c, FALSE)])
       /\ last' = RespMode("create_mode", u, id, NewMode(c, FALSE))
  /\ UNCHANGED <<now, rules>>

GetActiveMode(u) ==
  /\ Call(u)
  /\ last' = IF Cardinality(ActiveRows(u)) > 1
               THEN RespErr("get_active_mode", u, NoId, "MultipleResultsFound")
             ELSE IF ActiveRows(u) = {}
               THEN RespErr("get_active_mode", u, NoId, "NotFound")
             ELSE LET id == CHOOSE i \in ActiveRows(u) : TRUE
                  IN RespMode("get_active_mode", u, id, modes[id])
  /\ UNCHANGED <<modes, now, rules>>

GetMode(u, t) ==
  /\ Call(u)
  /\ last' = IF ~Owned(u, t) THEN RespErr("get_mode", u, t, "NotFound")
             ELSE RespMode("get_mode", u, t, modes[t])
  /\ UNCHANGED <<modes, now, rules>>

UpdateMode(u, t, c) ==
  /\ Call(u)
  /\ IF ~Owned(u, t)
       THEN /\ last' = RespErr("update_mode", u, t, "NotFound")
            /\ UNCHANGED modes
     ELSE IF LockRunning(modes[t])
       THEN /\ last' = RespErr("update_mode", u, t, "LockedStateConflict")
            /\ UNCHANGED modes
     ELSE /\ modes' = [modes EXCEPT ![t].cfg = c]
          /\ last' = RespMode("update_mode", u, t, modes[t])
  /\ UNCHANGED <<now, rules>>

DeleteMode(u, t) ==
  /\ Call(u)
  /\ IF ~Owned(u, t)
       THEN /\ last' = RespErr("delete_mode", u, t, "NotFound")
            /\ UNCHANGED <<modes, rules>>
     ELSE /\ modes' = Without(modes, {t})
          /\ rules' = RulesWithout({t})
          /\ last' = RespErr("delete_mode", u, t, "ok")
  /\ UNCHANGED now

Activate(u, t) ==
  /\ Call(u)
  /\ IF Cardinality(LockedRows(u)) > 1
       THEN /\ last' = RespErr("activate", u, t, "MultipleResultsFound")
            /\ UNCHANGED modes
     ELSE IF \E lm \in LockedRows(u) : LockRunning(modes[lm])
       THEN /\ last' = LET lm == CHOOSE i \in LockedRows(u) : TRUE
                       IN Resp("activate", u, t, "LockedStateConflict", lm,
                               TRUE, modes[lm].lock_until)
            /\ UNCHANGED modes
     ELSE IF ~Owned(u, t)
       \* the HTTPException reaches get_db, which rolls the session back
       THEN /\ last' = RespErr("activate", u, t, "NotFound")
            /\ UNCHANGED modes
     ELSE /\ modes' = Switched(modes, u, t)
          /\ last' = RespMode("activate", u, t, Switched(modes, u, t)[t])
  /\ UNCHANGED <<now, rules>>

Lock(u, t, d) ==
  /\ Call(u)
  /\ IF ~Owned(u, t)
       THEN /\ last' = [RespErr("lock", u, t, "NotFound") EXCEPT !.arg = d]
            /\ UNCHANGED modes
     ELSE IF ~modes[t].is_active
       THEN /\ last' = [RespErr("lock", u, t, "InvalidState") EXCEPT !.arg = d]
            /\ UNCHANGED modes
     ELSE /\ modes' = Locked(modes, t, d)
          /\ last' = [RespMode("lock", u, t, Locked(modes, t, d)[t])
                        EXCEPT !.arg = d]
  /\ UNCHANGED <<now, rules>>

\* ------------------------------------------- services/focus_engine.py
\* _get_locked_mode: the locked mode whose lock is running (NoId when there
\* is none) and the table it leaves, an expired lock cleared and committed
GetLockedMode(u) ==
  IF LockedRows(u) = {} THEN [mode |-> NoId, tbl |-> modes]
  ELSE LET lm == CHOOSE i \in LockedRows(u) : TRUE IN
    IF modes[lm].lock_until = None THEN [mode |-> NoId, tbl |-> modes]
    ELSE IF modes[lm].lock_until > now THEN [mode |-> lm, tbl |-> modes]
    ELSE [mode |-> NoId,
          tbl |-> [modes EXCEPT ![lm].is_locked = FALSE,
                                ![lm].lock_until = None]]

EngineActivate(u, t) ==
  /\ Call(u)
  /\ IF Cardinality(LockedRows(u)) > 1
       THEN /\ last' = RespErr("engine_activate", u, t, "MultipleResultsFound")
            /\ UNCHANGED modes
     ELSE LET g == GetLockedMode(u) IN
       IF g.mode # NoId
         THEN /\ last' = Resp("engine_activate", u, t, "LockedStateConflict",
                              g.mode, TRUE, modes[g.mode].lock_until)
              /\ UNCHANGED modes
       ELSE IF ~Owned(u, t)
         \* ValueError before the commit of the loop's changes; only the
         \* commit of _get_locked_mode has happened
         THEN /\ last' = RespErr("engine_activate", u, t, "NotFound")
              /\ modes' = g.tbl
       ELSE /\ modes' = Switched(g.tbl, u, t)
            /\ last' = RespMode("engine_activate", u, t,
                                Switched(g.tbl, u, t)[t])
  /\ UNCHANGED <<now, rules>>

EngineLock(u, t, d) ==
  /\ Call(u)
  /\ IF ~Owned(u, t)
       THEN /\ last' = [RespErr("engine_lock", u, t, "NotFound") EXCEPT !.arg = d]
            /\ UNCHANGED modes
     ELSE IF ~modes[t].is_active
       THEN /\ last' = [RespErr("engine_lock", u, t, "InvalidState") EXCEPT !.arg = d]
            /\ UNCHANGED modes
     ELSE /\ modes' = Locked(modes, t, d)
          /\ last' = [RespMode("engine_lock", u, t, Locked(modes, t, d)[t])
                        EXCEPT !.arg = d]
  /\ UNCHANGED <<now, rules>>

Unlock(u, t) ==
  /\ Call(u)
  /\ IF ~Owned(u, t)
       THEN /\ last' = RespErr("unlock", u, t, "NotFound")
            /\ UNCHANGED modes
     ELSE /\ modes' = Unlocked(modes, t)
          /\ last' = RespMode("unlock", u, t, Unlocked(modes, t)[t])
  /\ UNCHANGED <<now, rules>>

\* lock_status of get_session_stats: set only while remaining_lock > 0
GetSessionStats(u) ==
  /\ Call(u)
  /\ last' = IF Cardinality(ActiveRows(u)) > 1
               THEN RespErr("get_session_stats", u, NoId, "MultipleResultsFound")
             ELSE IF ActiveRows(u) = {}
               THEN RespErr("get_session_stats", u, NoId, "ok")
             ELSE LET id == CHOOSE i \in ActiveRows(u) : TRUE IN
               IF modes[id].is_locked /\ modes[id].lock_until # None
                  /\ modes[id].lock_until - now > 0
                 THEN Resp("get_session_stats", u, id, "ok", NoId, TRUE,
                           modes[id].lock_until)
               ELSE Resp("get_session_stats", u, id, "ok", NoId, FALSE, None)
  /\ UNCHANGED <<modes, now, rules>>

\* --------------------------------------------------------------- clock
Tick ==
  /\ now < MaxTime
  /\ now' = now + 1
  /\ last' = RespErr("tick", "nobody", NoId, "ok")
  /\ pre' = NoPre
  /\ UNCHANGED <<modes, filterVars, heurVars, restVars, raceVars, cacheVars>>

Next ==
  \/ \E u \in Callers : ListModes(u)
  \/ \E u \in Callers : ResetModes(u)
  \/ \E u \in Callers, c \in CfgInputs : CreateMode(u, c)
  \/ \E u \in Callers : GetActiveMode(u)
  \/ \E u \in Callers : \E t \in TargetsOf(u) : GetMode(u, t)
  \/ \E u \in Callers : \E t \in TargetsOf(u), c \in CfgInputs : UpdateMode(u, t, c)
  \/ \E u \in Callers : \E t \in TargetsOf(u) : DeleteMode(u, t)
  \/ \E u \in Callers : \E t \in TargetsOf(u) : Activate(u, t)
  \/ \E u \in Callers : \E t \in TargetsOf(u), d \in LockDurations : Lock(u, t, d)
  \/ \E u \in Callers : \E t \in TargetsOf(u) : EngineActivate(u, t)
  \/ \E u \in Callers : \E t \in TargetsOf(u), d \in LockDurations : EngineLock(u, t, d)
  \/ \E u \in Callers : \E t \in TargetsOf(u) : Unlock(u, t)
  \/ \E u \in Callers : GetSessionStats(u)
  \/ Tick

Spec == Init /\ [][Next]_vars

\* ------------------------------- routers/modes.py, the filter rules
\* the table filter_rules holds up to MaxRules rows
MaxRules == 1

\* rule_data of create_rule
RuleInputs == {[rule_type |-> "keyword", condition |-> "contains:prank"]}

\* the rules of a mode; the response carries their number
RulesOf(t) == SelectSeq(rules, LAMBDA r : r.mode_id = t)

ListRules(u, t) ==
  /\ Call(u)
  /\ last' = IF ~Owned(u, t) THEN RespErr("list_mode_rules", u, t, "NotFound")
             ELSE [RespErr("list_mode_rules", u, t, "ok")
                     EXCEPT !.arg = Len(RulesOf(t))]
  /\ UNCHANGED <<modes, now, rules>>

CreateRule(u, t, rule_data) ==
  /\ Call(u)
  /\ Owned(u, t) => Len(rules) < MaxRules
  /\ IF ~Owned(u, t)
       THEN /\ last' = RespErr("create_rule", u, t, "NotFound")
            /\ UNCHANGED rules
     ELSE /\ rules' = Append(rules, [mode_id |-> t,
                                     rule_type |-> rule_data.rule_type,
                                     condition |-> rule_data.condition])
          /\ last' = RespErr("create_rule", u, t, "ok")
  /\ UNCHANGED <<modes, now>>

\* the requests that create, change or name a mode or a rule; the clock
\* stands still, the lookup by id and owner does not read it
RulesNext ==
  \/ \E u \in Callers : ListModes(u)
  \/ \E u \in Callers : ResetModes(u)
  \/ \E u \in Callers, c \in CfgInputs : CreateMode(u, c)
  \/ \E u \in Callers : \E t \in TargetsOf(u) : GetMode(u, t)
  \/ \E u \in Callers : \E t \in TargetsOf(u), c \in CfgInputs :
       UpdateMode(u, t, c)
  \/ \E u \in Callers : \E t \in TargetsOf(u) : DeleteMode(u, t)
  \/ \E u \in Callers : \E t \in TargetsOf(u) : Activate(u, t)
  \/ \E u \in Callers : \E t \in TargetsOf(u), d \in LockDurations :
       Lock(u, t, d)
  \/ \E u \in Callers : \E t \in TargetsOf(u) : EngineActivate(u, t)
  \/ \E u \in Callers : \E t \in TargetsOf(u), d \in LockDurations :
       EngineLock(u, t, d)
  \/ \E u \in Callers : \E t \in TargetsOf(u) : Unlock(u, t)
  \/ \E u \in Callers : \E t \in TargetsOf(u) : ListRules(u, t)
  \/ \E u \in Callers : \E t \in TargetsOf(u), r \in RuleInputs :
       CreateRule(u, t, r)

SpecRules == Init /\ [][RulesNext]_vars

\* ================================================================ claims
\* the least element of a set of numbers
SetMin(S) == CHOOSE x \in S : \A y \in S : x <= y

ActivateOps == {"activate", "engine_activate"}

\* the modes of u whose lock has not reached its deadline
RunningLocks(u) ==
  {m \in UserModes(u) : modes[m].is_locked /\ modes[m].lock_until > now}

\* the modes of u whose lock has reached its deadline
ExpiredLocks(u) ==
  {m \in UserModes(u) : /\ modes[m].is_locked
                        /\ modes[m].lock_until # None
                        /\ modes[m].lock_until <= now}

\* C1: every user has at most one mode with is_active = true, whatever
\* requests were served one at a time.
C1_AtMostOneActive ==
  \A u \in Users : Cardinality({m \in DOMAIN modes :
                                  m[1] = u /\ modes[m].is_active}) <= 1

\* an activate has moved the activity flag from one existing mode to another
C1_Witness ==
  /\ last.op \in ActivateOps /\ last.result = "ok"
  /\ pre.active # NoId /\ pre.active # last.target
  /\ pre.active \in DOMAIN modes
  /\ modes[last.target].is_active /\ ~modes[pre.active].is_active

\* C2: while a mode of the user is locked with lock_until > now, activate of
\* any target fails with LockedStateConflict naming that mode, and the table
\* is left as it was.
C2_ActivateBlockedByAnyLock ==
  [][\A u \in Users :
       (last'.op \in ActivateOps /\ last'.user = u /\ RunningLocks(u) # {})
       => /\ last'.result = "LockedStateConflict"
          /\ last'.blocker \in RunningLocks(u)
          /\ last'.ret_until = modes[last'.blocker].lock_until
          /\ modes' = modes]_vars

\* an activate of a mode of the user was refused because of another mode
C2_Witness ==
  /\ last.op = "activate" /\ last.result = "LockedStateConflict"
  /\ last.target \in UserModes(last.user)
  /\ last.blocker # last.target
  /\ last.blocker \in RunningLocks(last.user)

\* C3: while mode m of a user is locked with lock_until > now, no activate,
\* update_mode, delete_mode or reset_modes of that user removes m, changes
\* its configuration or leaves another mode active.
C3_LockPreventsSwitchAndMutation ==
  [][\A m \in DOMAIN modes :
       (/\ modes[m].is_locked /\ modes[m].lock_until > now
        /\ last'.user = m[1]
        /\ last'.op \in ActivateOps \cup
                        {"update_mode", "delete_mode", "reset_modes"})
       => /\ m \in DOMAIN modes'
          /\ modes'[m].cfg = modes[m].cfg
          /\ \A o \in DOMAIN modes' :
               (o[1] = m[1] /\ o # m) => ~modes'[o].is_active]_vars

\* C8: a request that reads the lock state of a mode whose lock_until <= now
\* reports the mode as not locked and leaves the stored row with
\* is_locked = false and lock_until cleared.
C8_ReadHealsExpiredLock ==
  [][\A m \in DOMAIN modes :
       (/\ modes[m].is_locked /\ modes[m].lock_until # None
        /\ modes[m].lock_until <= now
        /\ last'.user = m[1]
        /\ \/ last'.op \in ActivateOps
           \/ last'.op \in {"update_mode", "get_mode"} /\ last'.target = m
           \/ last'.op \in {"get_session_stats", "get_active_mode"}
              /\ modes[m].is_active)
       => /\ ~last'.ret_locked
          /\ m \in DOMAIN modes' => /\ ~modes'[m].is_locked
                                    /\ modes'[m].lock_until = None]_vars

\* C9: once now >= lock_until of the user's locked mode, activate of a mode
\* of the user succeeds and makes it the active one, with no unlock before.
C9_ExpiredLockNeverBlocks ==
  [][\A u \in Users :
       (/\ last'.op \in ActivateOps /\ last'.user = u
        /\ last'.target \in UserModes(u)
        /\ ExpiredLocks(u) # {} /\ RunningLocks(u) = {})
       => /\ last'.result = "ok"
          /\ modes'[last'.target].is_active]_vars

\* an activate succeeded at the very minute the lock ran out
C9_Witness ==
  /\ last.op = "activate" /\ last.result = "ok"
  /\ pre.until = now

\* C10: with no lock running and a target of the user, activate leaves the
\* target active, every other mode of the user inactive and no mode of the
\* user with is_locked = true or a lock_until.
C10_ActivateSwitches ==
  [][\A u \in Users :
       (/\ last'.op \in ActivateOps /\ last'.user = u
        /\ last'.target \in UserModes(u) /\ RunningLocks(u) = {})
       => \A m \in DOMAIN modes' :
            m[1] = u => /\ modes'[m].is_active = (m = last'.target)
                        /\ ~modes'[m].is_locked
                        /\ modes'[m].lock_until = None]_vars

\* an activate cleared an expired lock of another mode and took its place
C10_Witness ==
  /\ last.op \in ActivateOps /\ last.result = "ok"
  /\ pre.locked # NoId /\ pre.locked # last.target
  /\ pre.locked \in DOMAIN modes
  /\ ~modes[pre.locked].is_locked /\ modes[last.target].is_active

\* ------------------------------------------------------ lock and unlock
LockOps == {"lock", "engine_lock"}

\* C11: lock(mode_id, duration) succeeds exactly when the mode belongs to the
\* user and is active, and then that mode alone gets is_locked = true and
\* lock_until = now + duration; on a mode of the user that is not active it
\* fails with InvalidState, and a failed lock changes no mode.
C11_LockOnlyActive ==
  [][\A u \in Users :
       (last'.op \in LockOps /\ last'.user = u)
       => LET t == last'.target IN
            /\ (last'.result = "ok") = (t \in UserModes(u) /\ modes[t].is_active)
            /\ last'.result = "ok"
                 => /\ modes' = [modes EXCEPT ![t].is_locked = TRUE,
                                              ![t].lock_until = now + last'.arg]
                    /\ last'.ret_locked /\ last'.ret_until = now + last'.arg
            /\ (t \in UserModes(u) /\ ~modes[t].is_active)
                 => last'.result = "InvalidState"
            /\ last'.result # "ok" => modes' = modes]_vars

\* the active mode was locked after the clock had moved on
C11_Witness ==
  /\ last.op \in LockOps /\ last.result = "ok" /\ now > 0
  /\ modes[last.target].is_active /\ modes[last.target].is_locked
  /\ modes[last.target].lock_until = now + last.arg

\* C12: unlock(mode_id) of a mode of the user succeeds whatever state the mode
\* is in, leaves it with is_locked = false and no lock_until, and changes
\* neither its is_active nor any field of any other mode.
C12_UnlockClearsOnlyLock ==
  [][\A u \in Users :
       (last'.op = "unlock" /\ last'.user = u /\ last'.target \in UserModes(u))
       => LET t == last'.target IN
            /\ last'.result = "ok"
            /\ DOMAIN modes' = DOMAIN modes
            /\ ~modes'[t].is_locked /\ modes'[t].lock_until = None
            /\ modes'[t].is_active = modes[t].is_active
            /\ modes'[t].cfg = modes[t].cfg
            /\ \A o \in DOMAIN modes : o # t => modes'[o] = modes[o]]_vars

\* a running lock of the active mode was removed and the mode stayed active
C12_Witness ==
  /\ last.op = "unlock" /\ last.result = "ok"
  /\ pre.locked = last.target /\ pre.until > now
  /\ modes[last.target].is_active /\ ~modes[last.target].is_locked

\* --------------------------------------------------- concurrent classify
\* C6: when two calls classify the same video and both find it uncached,
\* both return a Classification without error and the cache ends with one
\* row for the video, holding the last write.
C6_ConcurrentClassifyNoError ==
  (/\ \A p \in Procs : calls[p].pc = "done" /\ calls[p].lookup = "absent"
   /\ calls["p1"].video = calls["p2"].video)
  => /\ \A p \in Procs : calls[p].result = "ok" /\ calls[p].out \in ClsInputs
     /\ calls["p1"].video \in DOMAIN cache
     /\ ClsOfRow(cache[calls["p1"].video]) = clast[calls["p1"].video]

\* ------------------------------------------------------ classify_video
\* the call p has just run _get_cached and the store answered
LookedUp(p) ==
  /\ calls[p].pc = "start" /\ calls'[p].pc # "start"
  /\ ~calls[p].force_refresh /\ calls'[p].failed = "none"

\* C13: once a Classification has been written for a video id, a lookup at
\* a time <= the expiry of the entry returns the category and the four scores
\* that were written, and a lookup after the expiry finds the entry absent:
\* nothing is returned from it and the call goes on to compute.
C13_CacheRoundTrip ==
  [][\A p \in Procs :
       LET v == calls[p].video IN
         (LookedUp(p) /\ v \in DOMAIN clast)
         => IF clock <= cache[v].expires_at
              THEN /\ calls'[p].lookup = "hit" /\ calls'[p].result = "ok"
                   /\ calls'[p].out = clast[v]
              ELSE /\ calls'[p].lookup = "expired"
                   /\ calls'[p].pc = "compute"
                   /\ calls'[p].out = NoCls]_vars

\* a lookup at the very time of the expiry returned what was written
C13_Witness ==
  \E p \in Procs :
    /\ calls[p].lookup = "hit" /\ calls[p].pc = "done"
    /\ calls[p].out = clast[calls[p].video]
    /\ cache[calls[p].video].expires_at = clock

\* C14: classify_video without force_refresh on a video whose entry has not
\* expired returns the stored category and scores as they are and is done:
\* nothing is computed, no AI call is made, and no row, expiry included, is
\* changed.
C14_HitReturnsVerbatim ==
  [][\A p \in Procs :
       LET v == calls[p].video IN
         /\ (/\ LookedUp(p) /\ v \in DOMAIN cache
             /\ clock <= cache[v].expires_at)
            => /\ calls'[p].pc = "done" /\ calls'[p].result = "ok"
               /\ \A f \in ClsFields : calls'[p].out[f] = cache[v][f]
               /\ calls'[p].cls = NoCls /\ calls'[p].ai = "none"
               /\ cache' = cache
         /\ calls[p].lookup = "hit" => calls'[p] = calls[p]]_vars

\* a call with use_ai found an entry written earlier by an AI answer and
\* returned it
C14_Witness ==
  \E p \in Procs :
    /\ calls[p].lookup = "hit" /\ calls[p].use_ai
    /\ cache[calls[p].video].analyzed_at < clock
    /\ cache[calls[p].video].confidence_score # 600
    /\ calls[p].out = ClsOfRow(cache[calls[p].video])

\* the row of the call's video is as the call last read it: no other call
\* has written it since
Unraced(p) ==
  /\ calls[p].existing = (calls[p].video \in DOMAIN cache)
  /\ calls[p].existing => calls[p].loaded = cache[calls[p].video]

C16_StoreFailureDegrades ==
  \A p \in Procs :
    calls[p].failed # "none"
    => /\ calls[p].result = "ok"
       /\ calls[p].out = _fallback_classification(VideoOf(calls[p].video))

AIFailures == {"raised", "unparseable"}

\* the Classification of the heuristic cascade for each video
HeuristicOf == [v \in VideoIds |-> _fallback_classification(VideoOf(v))]

\* C17: when the AI call of a classify_video with use_ai raises or gives
\* output that cannot be parsed, the call goes on without error with the
\* Classification the heuristic cascade gives for the video, and its write
\* stores that Classification.
C17_AIFailureFallsBack ==
  [][\A p \in Procs :
       LET v == calls[p].video
           h == HeuristicOf[v]
       IN calls'[p].ai \in AIFailures
          => /\ calls'[p].use_ai
             /\ calls'[p].cls = h
             /\ calls[p].pc = "compute"
                  => calls'[p].pc = "select" /\ calls'[p].result = "none"
             /\ (calls[p].pc = "commit" /\ calls'[p].result = "ok")
                  => /\ calls'[p].out = h
                     /\ ClsOfRow(cache'[v]) = h]_vars

\* the answer of the model was no JSON, and the heuristic Classification was
\* returned and cached
C17_Witness ==
  \E p \in Procs :
    /\ calls[p].ai = "unparseable" /\ calls[p].result = "ok"
    /\ calls[p].out = HeuristicOf[calls[p].video]
    /\ ClsOfRow(cache[calls[p].video]) = calls[p].out

\* --------------------------------------------- the heuristic cascade
HeuristicCategories ==
  {"ENTERTAINMENT", "MUSIC", "GAMING", "COMEDY", "EDUCATION", "SCIENCE_TECH",
   "HOWTO_STYLE"}

\* the enumerated set of categories
CategorySet ==
  HeuristicCategories \cup {CATEGORIES[i] : i \in 1..Len(CATEGORIES)}
  \cup {"NEWS_POLITICS"}

\* a Classification with a category of the set and four scores in [0, 1]
WellFormed(c) ==
  /\ c.category \in CategorySet
  /\ \A k \in ScoreKeys : 0 <= c[k] /\ c[k] <= 1000

\* what the heuristic cascade emits
Heuristic(c) ==
  /\ WellFormed(c)
  /\ c.category \in HeuristicCategories
  /\ c.confidence_score = 600

\* every video of HeuristicInputs, the empty one included, gets a heuristic
\* Classification
HeuristicRange ==
  \A v \in HeuristicInputs : Heuristic(_fallback_classification(v))

\* C18: every Classification that classify_video computes or returns, from
\* a cache hit, the heuristic cascade or the AI path, and every cache row has
\* a category of the enumerated set and four scores in [0, 1]; what the
\* heuristic cascade gives, for every input including the empty one, has one
\* of its seven categories and confidence 0.6.
C18_ClassificationWellFormed ==
  /\ \A p \in Procs :
       /\ calls[p].cls # NoCls => WellFormed(calls[p].cls)
       /\ calls[p].out # NoCls => WellFormed(calls[p].out)
       /\ (calls[p].cls # NoCls /\ calls[p].ai \notin {"parsed"})
            => Heuristic(calls[p].cls)
  /\ \A v \in DOMAIN cache : WellFormed(ClsOfRow(cache[v]))
  /\ HeuristicRange

\* an AI answer with scores outside [0, 1] was returned and cached with the
\* scores brought into the range
C18_Witness ==
  \E p \in Procs :
    /\ calls[p].ai = "parsed" /\ calls[p].result = "ok"
    /\ calls[p].out.confidence_score = 1000
    /\ calls[p].out.entertainment_score = 0
    /\ ClsOfRow(cache[calls[p].video]) = calls[p].out

StageCategory ==
  <<"MUSIC", "MUSIC", "GAMING", "COMEDY", "EDUCATION", "SCIENCE_TECH",
    "HOWTO_STYLE">>

\* the stages whose list matches the video, numbered in their order
StageHits(video) ==
  LET text == TextOf(video)
      lists == <<music_keywords, music_channel_indicators, gaming_keywords,
                 comedy_keywords, education_keywords, tech_keywords,
                 howto_keywords>>
  IN {k \in 1..Len(lists) :
        AnyIn(lists[k], IF k = 2 THEN Lower(video.channel_title) ELSE text)}

C20_DurationAdjustment ==
  hcls # NoCls
  => LET base == Cascade(TextOf(hvideo), Lower(hvideo.channel_title))
         d == hvideo.duration_seconds
     IN IF d < 60 /\ base.category # "MUSIC"
          THEN /\ hcls.entertainment_score = Max2(base.entertainment_score, 700)
               /\ hcls.depth_score = Min2(base.depth_score, 300)
        ELSE IF d > 1200
          THEN /\ hcls.entertainment_score = base.entertainment_score
               /\ hcls.depth_score = Min2(base.depth_score + 200, 1000)
        ELSE /\ hcls.entertainment_score = base.entertainment_score
             /\ hcls.depth_score = base.depth_score

\* an EDUCATION video of 59 seconds had both scores moved
C20_Witness ==
  /\ hcls # NoCls /\ hvideo.duration_seconds = 59
  /\ hcls.category = "EDUCATION"
  /\ hcls.entertainment_score = 700 /\ hcls.depth_score = 300

\* --------------------------------------------------- concurrent activate
\* C7: once two concurrent activate requests of one user for two different
\* modes have both committed, at most one mode of the user is active.
C7_ConcurrentActivateOneActive ==
  (/\ \A p \in Procs : rpc[p] = "done" /\ rres[p] = "ok"
   /\ rtarget["p1"] # rtarget["p2"])
  => Cardinality(ActiveRows(RaceUser)) <= 1

\* ------------------------------------------------------ check_video
Checked == "allowed" \in DOMAIN verdict

Elems(list) == {list[i] : i \in 1..Len(list)}

\* positions of the blocked keywords found in the title or the description,
\* letter case ignored
KeywordHits ==
  {i \in 1..Len(fin.mode.blocked_keywords) :
     \/ Contains(StrLower(fin.video.title),
                 StrLower(fin.mode.blocked_keywords[i]))
     \/ Contains(StrLower(fin.video.description),
                 StrLower(fin.mode.blocked_keywords[i]))}

\* the eight checks, in the order of the specification, that the input fails
FailedChecks ==
  {k \in 1..8 :
     \/ k = 1 /\ fin.mode.block_shorts /\ fin.video.is_short
     \/ k = 2 /\ fin.video.duration_seconds < fin.mode.min_duration_seconds
     \/ k = 3 /\ fin.classification.category
                   \in Elems(fin.mode.blocked_categories)
     \/ k = 4 /\ fin.mode.allowed_categories # << >>
              /\ fin.classification.category
                   \notin Elems(fin.mode.allowed_categories)
     \/ k = 5 /\ fin.mode.allowed_languages # << >>
              /\ fin.video.language # ""
              /\ fin.video.language \notin Elems(fin.mode.allowed_languages)
     \/ k = 6 /\ fin.classification.clickbait_score
                   > fin.mode.max_clickbait_score
     \/ k = 7 /\ fin.classification.entertainment_score
                   > fin.mode.max_entertainment_score
     \/ k = 8 /\ KeywordHits # {}}

\* what distinguishes the reason of check k
ReasonOfCheck(k) ==
  CASE k = 1 -> <<"Shorts are blocked in this focus mode">>
    [] k = 2 -> <<"Video too short (minimum ",
                  fin.mode.min_duration_seconds \div 60,
                  " minutes required)">>
    [] k = 3 -> <<"Category '", fin.classification.category,
                  "' is blocked in this focus mode">>
    [] k = 4 -> <<"Category '", fin.classification.category,
                  "' is not allowed in this focus mode">>
    [] k = 5 -> <<"Language '", fin.video.language,
                  "' is not allowed in this focus mode">>
    [] k = 6 -> <<"Video detected as clickbait (score: ",
                  Fmt2(fin.classification.clickbait_score), ")">>
    [] k = 7 -> <<"Video too entertaining for this focus mode (score: ",
                  Fmt2(fin.classification.entertainment_score), ")">>
    [] k = 8 -> <<"Video contains blocked keyword: '",
                  fin.mode.blocked_keywords[SetMin(KeywordHits)], "'">>

\* C4: check_video blocks iff one of the eight checks fails, and the reason
\* is that of the first failing check in the order shorts, duration, blocked
\* category, allowed category, language, clickbait, entertainment, keyword
\* (the first matching keyword of the list).
C4_FirstFailingCheckWins ==
  Checked =>
    /\ verdict.allowed = (FailedChecks = {})
    /\ FailedChecks # {} => verdict.reason = ReasonOfCheck(SetMin(FailedChecks))

\* a video that fails the shorts check and the duration check, and a later
\* one, is reported as a short
C4_Witness ==
  /\ Checked
  /\ {1, 2, 8} \subseteq FailedChecks
  /\ Cardinality(KeywordHits) > 1
  /\ verdict.reason = <<"Shorts are blocked in this focus mode">>

\* two keywords match and the first one of the list is reported
C4_WitnessKeyword ==
  /\ Checked
  /\ FailedChecks = {8}
  /\ Cardinality(KeywordHits) > 1
  /\ verdict.reason[2] = fin.mode.blocked_keywords[1]

\* C5: a verdict is either allowed without a reason or blocked with a
\* non-empty reason.
C5_VerdictShape ==
  Checked =>
    /\ verdict.allowed \in BOOLEAN
    /\ verdict.allowed => DOMAIN verdict = {"allowed"}
    /\ ~verdict.allowed => /\ DOMAIN verdict = {"allowed", "reason"}
                           /\ Len(verdict.reason) > 0
                           /\ verdict.reason[1] # ""

\* a blocked verdict with its reason
C5_Witness ==
  /\ Checked
  /\ ~verdict.allowed
  /\ verdict.reason[1] = "Category '"

\* C21: with allowed_categories empty the allow-list check rejects nothing:
\* the video is admitted exactly when no other check fails, whatever its
\* category, and a blocked verdict never carries the allow-list reason.
C21_EmptyAllowListAdmits ==
  (Checked /\ fin.mode.allowed_categories = << >>) =>
    /\ verdict.allowed = (FailedChecks \ {4} = {})
    /\ ~verdict.allowed => verdict.reason # ReasonOfCheck(4)

\* no allowed and no blocked categories: an ENTERTAINMENT video is admitted
C21_Witness ==
  /\ Checked
  /\ fin.mode.allowed_categories = << >>
  /\ fin.mode.blocked_categories = << >>
  /\ fin.classification.category = "ENTERTAINMENT"
  /\ verdict.allowed

\* C22: the verdict and its reason do not depend on mode.block_trending: the
\* mode that differs only in block_trending gives the same result.
C22_TrendingNotEvaluated ==
  Checked =>
    verdict = check_video(fin.video, fin.classification,
                          [fin.mode EXCEPT !.block_trending = ~@])

\* a mode with block_trending set admits a video that passes the other checks
C22_Witness ==
  /\ Checked
  /\ fin.mode.block_trending
  /\ FailedChecks = {}
  /\ verdict.allowed

\* ------------------------------------------------- check_time_limit
\* positions of the rows of a user watched since UTC midnight
TodayRows(u) ==
  {i \in 1..Len(watch) :
     watch[i].user_id = u /\ watch[i].watched_at >= (wnow \div DayLen) * DayLen}

RECURSIVE SecondsOf(_)
SecondsOf(S) ==
  IF S = {} THEN 0
  ELSE LET i == CHOOSE x \in S : TRUE
       IN watch[i].watch_duration_seconds + SecondsOf(S \ {i})

\* whole minutes watched by a user since UTC midnight
UsedToday(u) == SecondsOf(TodayRows(u)) \div 60

\* C24: for a mode with a daily limit of L minutes check_time_limit reports
\* used = the whole minutes of the user's watch durations since UTC midnight,
\* exceeded = (used >= L) and remaining = max(0, L - used), so that exceeded
\* holds exactly when remaining is 0; for a mode without a limit it reports
\* has_limit = false, no limit and no remaining value.
C24_TimeLimit ==
  [][tl' # tl =>
       LET L == tl'.daily_time_limit_minutes
           r == tl'.result
           used == UsedToday(tl'.user)
       IN IF L = None
            THEN /\ r.has_limit = FALSE
                 /\ r.limit_minutes = None
                 /\ r.remaining_minutes = None
            ELSE /\ r.has_limit = TRUE
                 /\ r.used_minutes = used
                 /\ r.limit_minutes = L
                 /\ r.exceeded = (used >= L)
                 /\ r.remaining_minutes = (IF L - used > 0 THEN L - used
                                                           ELSE 0)
                 /\ r.exceeded = (r.remaining_minutes = 0)]_vars

\* 4200 seconds watched today against a limit of 60 minutes
C24_Witness ==
  /\ tl # NoLimit
  /\ tl.daily_time_limit_minutes = 60
  /\ SecondsOf(TodayRows(tl.user)) = 4200
  /\ tl.result.used_minutes = 70
  /\ tl.result.exceeded
  /\ tl.result.remaining_minutes = 0

\* the limit is reached to the minute by two events of the day, an event of
\* the day before or of another user not counted
C24_WitnessBoundary ==
  /\ tl # NoLimit
  /\ Len(watch) = 3
  /\ Cardinality(TodayRows(tl.user)) = 2
  /\ tl.daily_time_limit_minutes = 60
  /\ tl.result.used_minutes = 60
  /\ tl.result.exceeded

\* ----------------------------------------- get_personalized_ranking
\* the dictionary without its personalization score
Unscored(d) == [k \in DOMAIN d \ {"personalization_score"} |-> d[k]]

Occurrences(list, x) == Cardinality({i \in 1..Len(list) : list[i] = x})

\* the list returned and its videos
Sorted == ranked.sorted_videos

RankedVideos == [j \in 1..Len(Sorted) |-> Unscored(Sorted[j])]

\* the score the list returned gives to a video
ScoreGiven(video) ==
  Sorted[CHOOSE j \in 1..Len(Sorted) : RankedVideos[j] = video]
    .personalization_score

\* C25: get_personalized_ranking returns a permutation of the input videos,
\* each annotated with a score, in the order of non-increasing score, videos
\* of equal score in their input order.
C25_RankingIsStablePermutation ==
  ranked # NoList =>
    /\ Len(Sorted) = Len(ranking.videos)
    /\ \A v \in RankVideos :
         Occurrences(RankedVideos, v) = Occurrences(ranking.videos, v)
    /\ \A j \in 1..Len(Sorted) : "personalization_score" \in DOMAIN Sorted[j]
    /\ \A j \in 1..(Len(Sorted) - 1) :
         Sorted[j].personalization_score
           >= Sorted[j + 1].personalization_score
    /\ \A j \in 1..Len(Sorted) :
         LET score == Sorted[j].personalization_score
         IN SelectSeq(RankedVideos, LAMBDA v : ScoreGiven(v) = score)
              = SelectSeq(ranking.videos, LAMBDA v : ScoreGiven(v) = score)

\* three videos out of order, two of them different videos of equal score
C25_Witness ==
  /\ ranked # NoList
  /\ Len(Sorted) = 3
  /\ RankedVideos # ranking.videos
  /\ \E i, j \in 1..3 :
       /\ i < j
       /\ ranking.videos[i] # ranking.videos[j]
       /\ ScoreGiven(ranking.videos[i]) = ScoreGiven(ranking.videos[j])
       /\ ScoreGiven(ranking.videos[i]) < Sorted[1].personalization_score

\* ------------------------------------------------------- ownership
\* the operations that name a mode and look it up by id and owner first
OwnerOps ==
  {"get_mode", "update_mode", "delete_mode", "lock", "engine_lock", "unlock",
   "list_mode_rules", "create_rule"}

\* the mode named is none of the caller's
NotOwn(u, t) == t \notin DOMAIN modes \/ t[1] # u

\* the rows of filter_rules that belong to modes of other users than u
RulesOfOthers(tbl, u) == SelectSeq(tbl, LAMBDA r : r.mode_id[1] # u)

\* C26: get, update, delete, lock, unlock, rule listing and rule creation on
\* a mode the caller does not own fail with NotFound and change nothing, and
\* no request of a user changes a mode, or a rule of a mode, of another user.
C26_OwnershipFrame ==
  [][last'.user \in Users =>
       /\ (last'.op \in OwnerOps /\ NotOwn(last'.user, last'.target)) =>
            /\ last'.result = "NotFound"
            /\ modes' = modes
            /\ rules' = rules
       /\ \A id \in DOMAIN modes :
            id[1] # last'.user => id \in DOMAIN modes' /\ modes'[id] = modes[id]
       /\ \A id \in DOMAIN modes' : id[1] # last'.user => id \in DOMAIN modes
       /\ RulesOfOthers(rules', last'.user) = RulesOfOthers(rules, last'.user)
    ]_vars

\* a request for a mode of another user that exists has been refused
C26_Witness ==
  /\ last.op \in OwnerOps
  /\ last.target \in DOMAIN modes
  /\ last.target[1] # last.user
  /\ last.result = "NotFound"
  /\ rules # << >>

\* rule creation on a mode of another user has been refused
C26_WitnessRule ==
  /\ last.op = "create_rule"
  /\ last.target \in DOMAIN modes
  /\ last.target[1] # last.user
  /\ last.result = "NotFound"

\* ---------------------------------------------- activate, lock: errors
\* C27: activate with a mode id that does not belong to the user fails with
\* NotFound and leaves the stored state as it was: the mode that was active
\* is still active and no lock field has changed.
C27_FailedActivateChangesNothing ==
  [][(/\ last'.op \in ActivateOps
      /\ NotOwn(last'.user, last'.target)
      /\ RunningLocks(last'.user) = {})
     => /\ last'.result = "NotFound"
        /\ DOMAIN modes' = DOMAIN modes
        /\ \A m \in DOMAIN modes :
             /\ modes'[m].is_active = modes[m].is_active
             /\ modes'[m].is_locked = modes[m].is_locked
             /\ modes'[m].lock_until = modes[m].lock_until]_vars

\* C28: lock on a mode that is locked with lock_until > now never moves its
\* lock_until to an earlier time.
C28_RelockNeverShortens ==
  [][(/\ last'.op \in LockOps
      /\ last'.target \in DOMAIN modes
      /\ modes[last'.target].is_locked
      /\ modes[last'.target].lock_until # None
      /\ modes[last'.target].lock_until > now)
     => /\ last'.target \in DOMAIN modes'
        /\ modes'[last'.target].lock_until
             >= modes[last'.target].lock_until]_vars

\* C29: whatever requests were served one at a time, a locked mode is
\* active and has lock_until set, a mode with lock_until set is locked, every
\* user has at most one locked mode and the lookup of the locked mode never
\* finds several rows.
C29_LockStateInvariant ==
  /\ \A m \in DOMAIN modes :
       /\ modes[m].is_locked =>
            modes[m].is_active /\ modes[m].lock_until # None
       /\ modes[m].lock_until # None => modes[m].is_locked
  /\ \A u \in Users :
       Cardinality({m \in DOMAIN modes : m[1] = u /\ modes[m].is_locked}) <= 1
  /\ last.op \in ActivateOps => last.result # "MultipleResultsFound"

\* time has passed, a lock is running on the active mode and an activate
\* has found the one locked mode
C29_Witness ==
  /\ last.op \in ActivateOps
  /\ last.result = "LockedStateConflict"
  /\ last.blocker \in DOMAIN modes
  /\ modes[last.blocker].is_locked
  /\ modes[last.blocker].is_active
  /\ modes[last.blocker].lock_until > now
  /\ now > 0

\* ----------------------------------------------------------- get_feed
StudyMode == FocusModeOf(PRESET_MODES.study)

\* the entries of the platform path for the video of scenario A, "OFFICIAL
\* MUSIC VIDEO - Song Name" of 240 seconds, under the study preset
ScenarioA ==
  IF "checked" \in DOMAIN fitems /\ freq.active_mode = StudyMode
    THEN {k \in 1..Len(fitems.checked) : fitems.checked[k].video_id = "v1"}
    ELSE {}

\* C23 as stated: under the study preset the classifier gives the video of
\* scenario A the category MUSIC and the policy engine blocks it with the
\* reason of the allow-list check, "Category 'MUSIC' is not allowed in this
\* focus mode".
C23_ScenarioA_NotAllowed ==
  \A k \in ScenarioA :
    /\ fitems.checked[k].classification.category = "MUSIC"
    /\ fitems.checked[k].filter_result
         = [allowed |-> FALSE,
            reason |-> <<"Category '", "MUSIC",
                         "' is not allowed in this focus mode">>]

\* C23 as amended: under the study preset the classifier gives the video of
\* scenario A the category MUSIC and the policy engine blocks it with the
\* reason of the block-list check, "Category 'MUSIC' is blocked in this focus
\* mode": MUSIC is in the preset's blocked_categories, which are checked
\* before the allowed ones.
C23_ScenarioA_Blocked ==
  \A k \in ScenarioA :
    /\ fitems.checked[k].classification.category = "MUSIC"
    /\ fitems.checked[k].filter_result
         = [allowed |-> FALSE,
            reason |-> <<"Category '", "MUSIC",
                         "' is blocked in this focus mode">>]

\* the feed of the study preset has looked at the video and left it out
C23_Witness ==
  /\ ScenarioA # {}
  /\ \A i \in 1..Len(fitems.items) : fitems.items[i].video_id # "v1"
  /\ fitems.filtered_count > 0

\* the video an item of the feed was made from
VideoOfItem(item) ==
  CHOOSE v \in Elems(freq.videos) : v.id = item.video_id

\* C30: every item get_feed returns is a video check_video admits under the
\* active mode, with the category and the scores the item carries, on the
\* demo-data path as on the platform path.
C30_FeedWithinPolicy ==
  "items" \in DOMAIN fitems =>
    \A i \in 1..Len(fitems.items) :
      LET item == fitems.items[i] IN
        check_video(FilterVideo(VideoOfItem(item)),
                    [category |-> item.category,
                     clickbait_score |-> item.clickbait_score,
                     entertainment_score |-> item.entertainment_score],
                    FilterMode(freq.active_mode)).allowed
====
